---- MODULE Spec2Model ----
(***************************************************************************)
(* A model of the Element base class (element.cc): port storage and the    *)
(* port lifecycle (set_nports, notify_nports, initialize_ports,            *)
(* connect_port), the port-count, processing and flow-code grammars, the   *)
(* default push and pull hooks, configuration and its handlers,            *)
(* construction, destruction and the allocation counter, and cleanup.      *)
(*                                                                         *)
(* C strings are sequences of one-character strings; a position p in a     *)
(* string s is 1-based, and p = Len(s) + 1 is the terminating NUL.         *)
(***************************************************************************)
EXTENDS Integers, Sequences, FiniteSets, TLC

VARIABLES el, rt, cls, call, ports_initialized, connected, fault, statics,
          nelements_allocated, threads

vars == <<el, rt, cls, call, ports_initialized, connected, fault, statics,
          nelements_allocated, threads>>

(***************************************************************************)
(* Bounds of the model.                                                    *)
(***************************************************************************)
\* the most ports (inputs plus outputs) the element of the lifecycle
\* specification is given
MaxPorts == 5

(***************************************************************************)
(* Program constants.                                                      *)
(***************************************************************************)
NULL == 0
NUL == ""
INLINE_PORTS == 4
INT_MAX == 2147483647
EINVAL == 22
EBUSY == 16
ENOMEM == 12
VAGNOSTIC == 0
VPUSH == 1
VPULL == 2
ROUTER_NEW == 0
ROUTER_PRECONFIGURE == 1
ROUTER_PREINITIALIZE == 2
ROUTER_LIVE == 3
ROUTER_DEAD == 4

\* the elements a port can be connected to, and the peer port indexes used
Peers == {1}
PeerPorts == {-1, 0}

(***************************************************************************)
(* Characters.                                                             *)
(***************************************************************************)
Upper == <<"A","B","C","D","E","F","G","H","I","J","K","L","M",
           "N","O","P","Q","R","S","T","U","V","W","X","Y","Z">>
Lower == <<"a","b","c","d","e","f","g","h","i","j","k","l","m",
           "n","o","p","q","r","s","t","u","v","w","x","y","z">>
Digits == <<"0","1","2","3","4","5","6","7","8","9">>

Range(f) == {f[i] : i \in DOMAIN f}
IndexOf(seq, c) == CHOOSE i \in DOMAIN seq : seq[i] = c

\* (*p >= 'A' && *p <= 'Z') || (*p >= 'a' && *p <= 'z')
IsLetter(c) == c \in Range(Upper) \/ c \in Range(Lower)
isdigit(c) == c \in Range(Digits)
DigitVal(c) == IndexOf(Digits, c) - 1

\* the character code of a letter, as used to index a 256-bit Bitvector
Ord(c) == IF c \in Range(Upper) THEN 64 + IndexOf(Upper, c)
          ELSE 96 + IndexOf(Lower, c)

\* *p for a pointer p into the NUL-terminated string s
CharAt(s, p) == IF p \in 1..Len(s) THEN s[p] ELSE NUL

(***************************************************************************)
(* Element classes.                                                        *)
(***************************************************************************)
\* What port_count(), processing() and flow_code() return is a C string
\* constant: ptr names the constant (the code compares pointers with
\* Element::PULL and Element::COMPLETE_FLOW), str is its text.
StrConst(ptr, str) == [ptr |-> ptr, str |-> str]

AGNOSTIC == StrConst("AGNOSTIC", <<"a">>)
PUSH == StrConst("PUSH", <<"h">>)
PULL == StrConst("PULL", <<"l">>)
PUSH_TO_PULL == StrConst("PUSH_TO_PULL", <<"h","/","l">>)
PULL_TO_PUSH == StrConst("PULL_TO_PUSH", <<"l","/","h">>)
COMPLETE_FLOW == [ptr |-> "COMPLETE_FLOW", str |-> <<"x","/","x">>, before |-> << >>]

\* an element class: the strings its three virtual functions return
Class(pc, proc, flow) ==
    [port_count |-> pc, processing |-> proc, flow_code |-> flow]

\* the Element base class: port_count() is "", processing() is AGNOSTIC,
\* flow_code() is COMPLETE_FLOW
BaseClass == Class(<< >>, AGNOSTIC, COMPLETE_FLOW)

\* the file-scope flags of element.cc, used by configuration() and
\* reconfigure_handler(); static storage starts at zero
Statics(store, was) ==
    [store_default_configuration |-> store, was_default_configuration |-> was]

\* no thread is inside a method of the element
NoThreads == << >>

(***************************************************************************)
(* Ports.                                                                  *)
(***************************************************************************)
\* Port(owner, e, port): the peer element (NULL if none) and peer port index
Port(e, port) == [e |-> e, port |-> port]

\* Port(): the record a fresh port array holds
PortDefault == Port(NULL, -2)

\* Port::allowed()
allowed(P) == P.port >= 0

\* A pointer to a port array.  off is the address it holds, counted in Ports
\* from _inline_ports; heap tells whether the array came from new[] or is
\* part of the inline buffer.  Far is an address that is _inline_ports + k
\* for no k >= 0.
Far == -1
InlinePtr(off) == [heap |-> FALSE, off |-> off]
HeapPtrAt(at) == [heap |-> TRUE, off |-> at]
HeapPtr == HeapPtrAt(Far)

\* the port array _ports[side] of element e, as a sequence of nports(side) ports
PortArray(e, side) ==
    IF e.ports[side].heap THEN e.heap[side]
    ELSE [k \in 1..e.nports[side] |-> e.inline[e.ports[side].off + k]]

nports(e, isoutput) == e.nports[IF isoutput THEN 1 ELSE 0]
ninputs(e) == e.nports[0]
noutputs(e) == e.nports[1]

\* _ports[side][k] = P  (k is the C index, 0-based)
SetPort(e, side, k, P) ==
    IF e.ports[side].heap
    THEN [e EXCEPT !.heap[side][k + 1] = P]
    ELSE [e EXCEPT !.inline[e.ports[side].off + k + 1] = P]

\* Element::port_active(isoutput, port)
port_active(e, isoutput, port) ==
    LET side == IF isoutput THEN 1 ELSE 0 IN
    /\ port >= 0
    /\ port < e.nports[side]
    /\ allowed(PortArray(e, side)[port + 1])

\* Element::Element(): no router, both port arrays empty and inline.
\* leaked and misfreed keep the books of the element's heap arrays: leaked,
\* a heap array was given up without delete[]; misfreed, delete[] was
\* applied to a pointer into the inline buffer.
NewElement ==
    [router |-> NULL,
     ports  |-> [s \in 0..1 |-> InlinePtr(0)],
     nports |-> [s \in 0..1 |-> 0],
     inline |-> [k \in 1..INLINE_PORTS |-> PortDefault],
     heap   |-> [s \in 0..1 |-> << >>],
     leaked |-> FALSE,
     misfreed |-> FALSE]

\* Router::Router()
NewRouter == [state |-> ROUTER_NEW, have_connections |-> FALSE]

(***************************************************************************)
(* Element::set_nports                                                     *)
(***************************************************************************)
\* The result of a method: the element and router after it, its return
\* value, and whether it dereferenced a null router.
Result(e, r, ret) == [el |-> e, rt |-> r, ret |-> ret, fault |-> FALSE]
Fault(e, r) == [el |-> e, rt |-> r, ret |-> 0, fault |-> TRUE]

\* what operator new[] gives for the two port arrays set_nports may ask
\* for: TRUE an array, FALSE a null pointer; at is the address of the
\* output array
MemAt(inputs, outputs, at) == [inputs |-> inputs, outputs |-> outputs, at |-> at]
Mem(inputs, outputs) == MemAt(inputs, outputs, Far)
MemOk == Mem(TRUE, TRUE)
MemOutcomes == { Mem(i, o) : i, o \in BOOLEAN }

\* a + b on two ints.  A sum that does not fit an int is signed overflow,
\* undefined in C; the build computes the two's-complement sum, 2^32 away
\* from a + b.
int_add(a, b) ==
    IF a > 0 /\ b > INT_MAX - a
    THEN (a - INT_MAX - 1) + (b - INT_MAX - 1)
    ELSE IF a < 0 /\ b < (-INT_MAX - 1) - a
    THEN (a + INT_MAX + 1) + (b + INT_MAX + 1)
    ELSE a + b

\* bool new_in_inline
new_in_inline(procIsPULL, new_ninputs, new_noutputs) ==
    \/ new_ninputs = 0
    \/ int_add(new_ninputs, new_noutputs) <= INLINE_PORTS
    \/ (new_ninputs <= INLINE_PORTS /\ new_noutputs > INLINE_PORTS)
    \/ (new_ninputs <= INLINE_PORTS /\ new_ninputs > new_noutputs
        /\ procIsPULL)

\* bool new_out_inline
new_out_inline(procIsPULL, new_ninputs, new_noutputs) ==
    \/ new_noutputs = 0
    \/ int_add(new_ninputs, new_noutputs) <= INLINE_PORTS
    \/ (new_noutputs <= INLINE_PORTS
        /\ ~new_in_inline(procIsPULL, new_ninputs, new_noutputs))

\* bool old_in_inline: _ports[0] == _inline_ports
old_in_inline(e) == e.ports[0].off = 0

\* bool old_out_inline (also the destructor's test):
\* _ports[1] == _inline_ports || _ports[1] == _inline_ports + _nports[0]
old_out_inline(e) == e.ports[1].off = 0 \/ e.ports[1].off = e.nports[0]

\* "if (!inline) delete[] _ports[side]" for an array the element gives up
release(e, side, inline) ==
    IF inline
    THEN (IF e.ports[side].heap THEN [e EXCEPT !.leaked = TRUE] ELSE e)
    ELSE (IF e.ports[side].heap THEN e ELSE [e EXCEPT !.misfreed = TRUE])

\* set_nports, "install information": the old arrays that are not taken for
\* inline are deleted and the new pointers and counts are installed.  A heap
\* array is new Port[n]; an inline array keeps whatever the inline buffer
\* holds.
set_nports_install(e, r, in_inline, out_inline, new_nin, new_nout, mem) ==
    Result([release(release(e, 0, old_in_inline(e)), 1, old_out_inline(e))
            EXCEPT
              !.heap = [s \in 0..1 |->
                         IF s = 0
                         THEN (IF in_inline THEN << >>
                               ELSE [k \in 1..new_nin |-> PortDefault])
                         ELSE (IF out_inline THEN << >>
                               ELSE [k \in 1..new_nout |-> PortDefault])],
              !.ports = [s \in 0..1 |->
                         IF s = 0
                         THEN (IF in_inline THEN InlinePtr(0) ELSE HeapPtr)
                         ELSE (IF out_inline
                               THEN InlinePtr(IF in_inline THEN new_nin
                                              ELSE 0)
                               ELSE HeapPtrAt(mem.at))],
              !.nports = [s \in 0..1 |->
                         IF s = 0 THEN new_nin ELSE new_nout]],
           r, 0)

\* set_nports, from "decide if inputs & outputs should be inlined" on: the
\* new arrays are chosen (inline or heap) and allocated; a null pointer from
\* new[] ends the call with -ENOMEM (a new input array is deleted first)
set_nports_arrays(e, r, procIsPULL, new_ninputs, new_noutputs, mem) ==
    IF ~new_in_inline(procIsPULL, new_ninputs, new_noutputs) /\ ~mem.inputs
    THEN Result(e, r, -ENOMEM)
    ELSE IF ~new_out_inline(procIsPULL, new_ninputs, new_noutputs)
            /\ ~mem.outputs
    THEN Result(e, r, -ENOMEM)
    ELSE set_nports_install(e, r,
             new_in_inline(procIsPULL, new_ninputs, new_noutputs),
             new_out_inline(procIsPULL, new_ninputs, new_noutputs),
             new_ninputs, new_noutputs, mem)

\* set_nports with the frozen-ports test left out
set_nports_nofreeze(e, r, procIsPULL, new_ninputs, new_noutputs, mem) ==
    IF new_ninputs < 0 \/ new_noutputs < 0 THEN Result(e, r, -EINVAL)
    ELSE IF e.router = NULL THEN Fault(e, r)
    ELSE set_nports_arrays(e, [r EXCEPT !.have_connections = FALSE],
                           procIsPULL, new_ninputs, new_noutputs, mem)

\* Element::set_nports(new_ninputs, new_noutputs); procIsPULL is
\* processing() == PULL, mem is what new[] gives.  _router is dereferenced
\* without a null test.
set_nports(e, r, procIsPULL, new_ninputs, new_noutputs, mem) ==
    IF new_ninputs < 0 \/ new_noutputs < 0 THEN Result(e, r, -EINVAL)
    ELSE IF e.router = NULL THEN Fault(e, r)
    ELSE IF r.have_connections /\ r.state >= ROUTER_PREINITIALIZE
    THEN Result(e, r, -EBUSY)
    ELSE set_nports_arrays(e, [r EXCEPT !.have_connections = FALSE],
                           procIsPULL, new_ninputs, new_noutputs, mem)

(***************************************************************************)
(* Port-count specifiers: notify_nports                                    *)
(***************************************************************************)
\* the end of the run of digits that starts at position p of s
RECURSIVE DigitsEnd(_, _)
DigitsEnd(s, p) == IF isdigit(CharAt(s, p)) THEN DigitsEnd(s, p + 1) ELSE p

\* the value of the decimal digits s[p..e-1]
RECURSIVE DecimalValue(_, _, _)
DecimalValue(s, p, e) ==
    IF p >= e THEN 0
    ELSE DecimalValue(s, p, e - 1) * 10 + DigitVal(s[e - 1])

\* cp_integer(s, ends, 10, &v) called on a digit: the position after the
\* digits and the value read
cp_integer(s, p) ==
    [p |-> DigitsEnd(s, p), v |-> DecimalValue(s, p, DigitsEnd(s, p))]

\* a range read by notify_nports_pair: its return value, the position after
\* the range, and lo and hi
Pair(rc, p, lo, hi) == [rc |-> rc, p |-> p, lo |-> lo, hi |-> hi]

\* notify_nports_pair once lo is read and s stands at p: the "-hi" part
notify_nports_pair_hi(s, p, lo) ==
    IF p < Len(s) + 1 /\ CharAt(s, p) = "-"
    THEN IF p + 1 < Len(s) + 1 /\ isdigit(CharAt(s, p + 1))
         THEN Pair(0, cp_integer(s, p + 1).p, lo, cp_integer(s, p + 1).v)
         ELSE Pair(0, p + 1, lo, INT_MAX)
    ELSE Pair(0, p, lo, lo)

\* notify_nports_pair(s, ends, lo, hi): parses one range from position p;
\* rc < 0: *s is neither a digit nor '-' nor the end
notify_nports_pair(s, p) ==
    IF p = Len(s) + 1 \/ CharAt(s, p) = "-"
    THEN notify_nports_pair_hi(s, p, 0)
    ELSE IF isdigit(CharAt(s, p))
    THEN notify_nports_pair_hi(s, cp_integer(s, p).p, cp_integer(s, p).v)
    ELSE Pair(-1, p, 0, 0)

\* the ranges notify_nports has read: ok = FALSE is its parse_error exit,
\* equal is its flag for an output range "="
Ranges(ok, equal, in, out) ==
    [ok |-> ok, equal |-> equal, ninlo |-> in.lo, ninhi |-> in.hi,
     noutlo |-> out.lo, nouthi |-> out.hi]
BadRanges == Ranges(FALSE, FALSE, Pair(-1, 0, 0, 0), Pair(-1, 0, 0, 0))

\* port_count_out that does not ask for the range to end the specifier
port_count_out_prefix(s, r1, p2) ==
    IF CharAt(s, p2) = "=" /\ p2 + 1 = Len(s) + 1
    THEN Ranges(TRUE, TRUE, r1, Pair(0, 0, 0, 0))
    ELSE IF notify_nports_pair(s, p2).rc < 0
    THEN BadRanges
    ELSE Ranges(TRUE, FALSE, r1, notify_nports_pair(s, p2))

\* notify_nports, the output range: s stands at p2 after the input range r1
port_count_out(s, r1, p2) ==
    IF CharAt(s, p2) = "=" /\ p2 + 1 = Len(s) + 1
    THEN Ranges(TRUE, TRUE, r1, Pair(0, 0, 0, 0))
    ELSE IF notify_nports_pair(s, p2).rc < 0
            \/ notify_nports_pair(s, p2).p # Len(s) + 1
    THEN BadRanges
    ELSE Ranges(TRUE, FALSE, r1, notify_nports_pair(s, p2))

\* notify_nports, after the input range r1 is read: a specifier that ends
\* there is read again from its start, a '/' is stepped over
port_count_in(s, r1) ==
    IF r1.rc < 0 THEN BadRanges
    ELSE IF r1.p = Len(s) + 1 THEN port_count_out(s, r1, 1)
    ELSE IF CharAt(s, r1.p) = "/" THEN port_count_out(s, r1, r1.p + 1)
    ELSE BadRanges

\* the ranges notify_nports reads from the specifier s
port_count_ranges(s) == port_count_in(s, notify_nports_pair(s, 1))

\* if (n < lo) n = lo; else if (n > hi) n = hi;
clamp(n, lo, hi) == IF n < lo THEN lo ELSE IF n > hi THEN hi ELSE n

\* processing() == PULL, for an element of class c
ProcIsPULL(c) == c.processing.ptr = "PULL"

\* the result of notify_nports: a method result and the number of messages
\* given to errh
NotifyResult(res, ret, errors) ==
    [el |-> res.el, rt |-> res.rt, ret |-> ret, fault |-> res.fault,
     errors |-> errors]

\* notify_nports_set that clamps the output count even for "="
notify_nports_noequal(e, r, c, g, nin, want_out, mem) ==
    NotifyResult(set_nports(e, r, ProcIsPULL(c), nin,
                            clamp(want_out, g.noutlo, g.nouthi), mem),
                 0, 0)

\* notify_nports for the ranges g, from "if (ninputs < ninlo)": the counts
\* are clamped and set; the return value of set_nports is dropped
notify_nports_set(e, r, c, g, nin, want_out, mem) ==
    NotifyResult(set_nports(e, r, ProcIsPULL(c), nin,
                            IF g.equal THEN nin
                            ELSE clamp(want_out, g.noutlo, g.nouthi), mem),
                 0, 0)

\* notify_nports once the specifier is read into g
notify_nports_ranges(e, r, c, g, want_in, want_out, mem) ==
    IF ~g.ok THEN NotifyResult(Result(e, r, -1), -1, 1)
    ELSE notify_nports_set(e, r, c, g, clamp(want_in, g.ninlo, g.ninhi),
                           want_out, mem)

\* Element::notify_nports(ninputs, noutputs, errh) of an element of class c,
\* where new[] gives mem.
\* An empty specifier calls notify_ninputs and notify_noutputs, which do
\* nothing by default.
notify_nports(e, r, c, want_in, want_out, mem) ==
    IF c.port_count = << >> THEN NotifyResult(Result(e, r, 0), 0, 0)
    ELSE notify_nports_ranges(e, r, c, port_count_ranges(c.port_count),
                              want_in, want_out, mem)

(***************************************************************************)
(* initialize_ports and connect_port                                       *)
(***************************************************************************)
\* the element after the first n assignments of a loop of initialize_ports
RECURSIVE init_side(_, _, _, _)
init_side(e, side, v, n) ==
    IF n = 0 THEN e
    ELSE LET prev == init_side(e, side, v, n - 1)
             port == IF side = 0
                     THEN (IF v[n] = VPULL THEN 0 ELSE -1)
                     ELSE (IF v[n] = VPULL THEN -1 ELSE 0)
         IN SetPort(prev, side, n - 1, Port(NULL, port))

\* initialize_ports that makes an output active only when it is push
initialize_ports_pushonly(e, in_v, out_v) ==
    init_side(init_side(e, 0, in_v, ninputs(e)), 1,
              [k \in DOMAIN out_v |-> IF out_v[k] = VPUSH THEN VPUSH ELSE VPULL],
              noutputs(e))

\* Element::initialize_ports(in_v, out_v); in_v[k] is the C in_v[k - 1]
initialize_ports(e, in_v, out_v) ==
    init_side(init_side(e, 0, in_v, ninputs(e)), 1, out_v, noutputs(e))

\* connect_port that builds the Port with its two arguments exchanged
connect_port_swapped(e, isoutput, port, pe, e_port) ==
    IF port_active(e, isoutput, port)
    THEN [el |-> SetPort(e, IF isoutput THEN 1 ELSE 0, port, Port(e_port, pe)),
          ret |-> 0]
    ELSE [el |-> e, ret |-> -1]

\* connect_port that installs the peer on any port in range, active or not
connect_port_unchecked(e, isoutput, port, pe, e_port) ==
    IF port >= 0 /\ port < nports(e, isoutput)
    THEN [el |-> SetPort(e, IF isoutput THEN 1 ELSE 0, port, Port(pe, e_port)),
          ret |-> 0]
    ELSE [el |-> e, ret |-> -1]

\* Element::connect_port(isoutput, port, e, e_port)
connect_port(e, isoutput, port, pe, e_port) ==
    IF port_active(e, isoutput, port)
    THEN [el |-> SetPort(e, IF isoutput THEN 1 ELSE 0, port, Port(pe, e_port)),
          ret |-> 0]
    ELSE [el |-> e, ret |-> -1]

(***************************************************************************)
(* Flow codes: skip_flow_code, next_flow_code, port_flow                   *)
(***************************************************************************)
\* the 256 bits of a Bitvector code
CodeBits == 0..255

\* a C string as it lies in memory: its text, and the readable bytes stored
\* just below its first character, in address order (the last one is p[-1]
\* of the start).  Below the bytes listed lies a page that cannot be read.
\* Throughout this section s is such a string and position 1 is its first
\* character.
StrAt(ptr, str, before) == [ptr |-> ptr, str |-> str, before |-> before]

\* position p of s can be read: it is not in the page below s.before
Readable(s, p) == Len(s.before) + p >= 1

\* the byte at a readable position p of s: the text and its terminating
\* NUL at p >= 1, the bytes below the string at p <= 0
ByteAt(s, p) ==
    IF p >= 1 THEN CharAt(s.str, p)
    ELSE IF Readable(s, p) THEN s.before[Len(s.before) + p]
    ELSE NUL

\* the first position >= p of s that holds ']' or the terminating NUL
RECURSIVE BracketEnd(_, _)
BracketEnd(s, p) ==
    IF ByteAt(s, p) = "]" \/ ByteAt(s, p) = NUL THEN p
    ELSE BracketEnd(s, p + 1)

\* for (; *p != '['; p--): the position of the '[' found going down from
\* p.  The loop has no lower limit: it does not stop at the start of the
\* string, it goes on through the bytes below it, and if it meets no '['
\* there its read of the page below them faults (the result is then that
\* position, which is not Readable)
RECURSIVE ScanBack(_, _)
ScanBack(s, p) ==
    IF ~Readable(s, p) THEN p
    ELSE IF ByteAt(s, p) = "[" THEN p
    ELSE ScanBack(s, p - 1)

\* skip_flow_code that steps over one character even at a '['
skip_flow_code_nobracket(s, p) ==
    IF ByteAt(s, p) # "/" /\ ByteAt(s, p) # NUL THEN p + 1 ELSE p

\* skip_flow_code(p): the position after the code at p
skip_flow_code(s, p) ==
    LET c == ByteAt(s, p) IN
    IF c # "/" /\ c # NUL
    THEN IF c = "["
         THEN LET e == BracketEnd(s, p + 1)
              IN IF ByteAt(s, e) # NUL THEN e + 1 ELSE e
         ELSE p + 1
    ELSE p

\* the bits set and the errors reported for the characters s[a..b-1] found
\* between brackets
RECURSIVE BracketBits(_, _, _, _)
BracketBits(s, a, b, port) ==
    IF a >= b THEN [bits |-> {}, errors |-> 0]
    ELSE LET rest == BracketBits(s, a + 1, b, port)
             c == ByteAt(s, a)
         IN IF IsLetter(c)
            THEN [rest EXCEPT !.bits = @ \cup {Ord(c)}]
            ELSE IF c = "#"
            THEN [rest EXCEPT !.bits = @ \cup {port + 128}]
            ELSE [rest EXCEPT !.errors = @ + 1]

\* a back-up that goes to the first code of the section, not its last
flow_code_start_first(s, p) ==
    IF ByteAt(s, p) = "/" THEN 1
    ELSE IF ByteAt(s, p) = NUL
    THEN CHOOSE k \in 1..(Len(s.str) + 1) :
            /\ k = 1 \/ s.str[k - 1] = "/"
            /\ \A m \in k..Len(s.str) : s.str[m] # "/"
    ELSE p

\* the position next_flow_code reads its code from: at the end of a section
\* it looks at p[-1] and backs up to the last code.  The test has no lower
\* limit: at the start of the string p[-1] is the byte below the string,
\* and the result is a position < 1.  A result that is not Readable: the
\* read of p[-1], or the scan for '[', faulted there
flow_code_start(s, p) ==
    IF ByteAt(s, p) = "/" \/ ByteAt(s, p) = NUL
    THEN IF ~Readable(s, p - 1) THEN p - 1
         ELSE IF ByteAt(s, p - 1) = "]" THEN ScanBack(s, p - 2)
         ELSE p - 1
    ELSE p

\* a call of next_flow_code that took a memory fault: it does not return
\* (only the fields fault and ub say anything)
Faulted == [rc |-> 0, p |-> 0, code |-> {}, errors |-> 0, ub |-> TRUE, fault |-> TRUE]

\* next_flow_code after the back-up: the code read for `port` at position
\* p0, the position after it, the return value, the number of errors
\* reported, ub: the back-up read below the start of the string (p0 < 1;
\* what is found there depends on what the build stores below the string),
\* and fault: the back-up read a page that cannot be read
flow_code_at(s, p0, port) ==
    LET c == ByteAt(s, p0) IN
    IF ~Readable(s, p0) THEN Faulted
    ELSE IF c = "["
    THEN LET negated == ByteAt(s, p0 + 1) = "^"
             a == IF negated THEN p0 + 2 ELSE p0 + 1
             b == BracketEnd(s, a)
             in == BracketBits(s, a, b, port)
             open == ByteAt(s, b) = NUL
         IN [rc |-> 0,
             p |-> IF open THEN b ELSE b + 1,
             code |-> IF negated THEN CodeBits \ in.bits ELSE in.bits,
             errors |-> in.errors + (IF open THEN 1 ELSE 0),
             ub |-> p0 < 1, fault |-> FALSE]
    ELSE IF IsLetter(c)
    THEN [rc |-> 0, p |-> p0 + 1, code |-> {Ord(c)}, errors |-> 0,
          ub |-> p0 < 1, fault |-> FALSE]
    ELSE IF c = "#"
    THEN [rc |-> 0, p |-> p0 + 1, code |-> {port + 128}, errors |-> 0,
          ub |-> p0 < 1, fault |-> FALSE]
    ELSE [rc |-> -1, p |-> p0 + 1, code |-> {}, errors |-> 1,
          ub |-> p0 < 1, fault |-> FALSE]

\* next_flow_code that backs up one character whatever the last code is
next_flow_code_back1(s, p, port) ==
    flow_code_at(s, IF ByteAt(s, p) = "/" \/ ByteAt(s, p) = NUL
                    THEN p - 1 ELSE p, port)

\* next_flow_code that gives every '#' the bit of port 0
next_flow_code_port0(s, p, port) ==
    flow_code_at(s, flow_code_start(s, p), 0)

\* next_flow_code(p, port, code, errh, e)
next_flow_code(s, p, port) ==
    flow_code_at(s, flow_code_start(s, p), port)

\* the position of the first '/' of s at or after p, 0 if there is none
\* (strchr)
RECURSIVE strchr_slash(_, _)
strchr_slash(s, p) ==
    IF p > Len(s.str) THEN 0
    ELSE IF s.str[p] = "/" THEN p
    ELSE strchr_slash(s, p + 1)

\* f_in after `n` calls of skip_flow_code
RECURSIVE skip_n(_, _, _)
skip_n(s, p, n) == IF n = 0 THEN p ELSE skip_flow_code(s, skip_n(s, p, n - 1))

\* the results of next_flow_code(f_out, i, ...) for i = 0 .. n-1, in a
\* sequence; each call starts where the one before stopped, and no call is
\* made after one that faulted
RECURSIVE out_codes(_, _, _)
out_codes(s, p, n) ==
    IF n = 0 THEN << >>
    ELSE LET before == out_codes(s, p, n - 1)
             from == IF n = 1 THEN p ELSE before[n - 1].p
         IN IF n > 1 /\ before[n - 1].fault THEN Append(before, Faulted)
            ELSE Append(before, next_flow_code(s, from, n - 1))

\* the errors reported by the calls in a sequence of next_flow_code results
RECURSIVE errors_of(_, _)
errors_of(outs, n) ==
    IF n = 0 THEN 0 ELSE errors_of(outs, n - 1) + outs[n].errors

\* port_flow, from "const char* f_in = f" on: the flow code is read.  A
\* fault ends the call: the entries of travels not yet reached stay false
port_flow_read(e, s, isoutput, port) ==
    LET nother == nports(e, ~isoutput)
        slash == strchr_slash(s, 1)
        f_slash == IF slash # 0 THEN slash + 1 ELSE 1
        f_in == IF isoutput THEN f_slash ELSE 1
        f_out == IF isoutput THEN 1 ELSE f_slash
        in_code == next_flow_code(s, skip_n(s, f_in, port), port)
        outs == out_codes(s, f_out, nother)
    IN  IF ByteAt(s, f_slash) = NUL \/ ByteAt(s, f_slash) = "/"
        THEN [travels |-> [k \in 1..nother |-> FALSE], errors |-> 1,
              ub |-> FALSE, fault |-> FALSE]
        ELSE IF in_code.fault
        THEN [travels |-> [k \in 1..nother |-> FALSE], errors |-> 0,
              ub |-> TRUE, fault |-> TRUE]
        ELSE [travels |-> [k \in 1..nother |->
                             /\ ~outs[k].fault
                             /\ in_code.code \cap outs[k].code # {}],
              errors |-> in_code.errors + errors_of(outs, nother),
              ub |-> in_code.ub \/ \E k \in 1..nother : outs[k].ub,
              fault |-> \E k \in 1..nother : outs[k].fault]

\* port_flow that takes the complete-flow fast path before it tests the port
port_flow_fastfirst(e, f, isoutput, port) ==
    LET nother == nports(e, ~isoutput) IN
    IF f.ptr = "null" \/ f.ptr = "COMPLETE_FLOW"
    THEN [travels |-> [k \in 1..nother |-> TRUE], errors |-> 0,
          ub |-> FALSE, fault |-> FALSE]
    ELSE IF port < 0 \/ port >= nports(e, isoutput)
    THEN [travels |-> [k \in 1..nother |-> FALSE], errors |-> 0,
          ub |-> FALSE, fault |-> FALSE]
    ELSE port_flow_read(e, f, isoutput, port)

\* Element::port_flow(isoutput, port, travels) of an element whose
\* flow_code() is f (a null pointer has f.ptr = "null"): travels[k] is the
\* C (*travels)[k - 1].
port_flow(e, f, isoutput, port) ==
    LET nother == nports(e, ~isoutput) IN
    IF port < 0 \/ port >= nports(e, isoutput)
    THEN [travels |-> [k \in 1..nother |-> FALSE], errors |-> 0,
          ub |-> FALSE, fault |-> FALSE]
    ELSE IF f.ptr = "null" \/ f.ptr = "COMPLETE_FLOW"
    THEN [travels |-> [k \in 1..nother |-> TRUE], errors |-> 0,
          ub |-> FALSE, fault |-> FALSE]
    ELSE port_flow_read(e, f, isoutput, port)

(***************************************************************************)
(* Processing codes: next_processing_code, processing_vector               *)
(***************************************************************************)
\* next_processing_code with the push and pull letters exchanged
next_processing_code_swapped(s, p) ==
    LET c == CharAt(s, p) IN
    IF c = "h" \/ c = "H" THEN [val |-> VPULL, p |-> p + 1, errors |-> 0]
    ELSE IF c = "l" \/ c = "L" THEN [val |-> VPUSH, p |-> p + 1, errors |-> 0]
    ELSE IF c = "a" \/ c = "A" THEN [val |-> VAGNOSTIC, p |-> p + 1, errors |-> 0]
    ELSE IF c = "/" \/ c = NUL THEN [val |-> -2, p |-> p, errors |-> 0]
    ELSE [val |-> -1, p |-> p + 1, errors |-> 1]

\* Element::next_processing_code(p, errh): the value returned, the position
\* after the call and the number of errors reported
next_processing_code(s, p) ==
    LET c == CharAt(s, p) IN
    IF c = "h" \/ c = "H" THEN [val |-> VPUSH, p |-> p + 1, errors |-> 0]
    ELSE IF c = "l" \/ c = "L" THEN [val |-> VPULL, p |-> p + 1, errors |-> 0]
    ELSE IF c = "a" \/ c = "A" THEN [val |-> VAGNOSTIC, p |-> p + 1, errors |-> 0]
    ELSE IF c = "/" \/ c = NUL THEN [val |-> -2, p |-> p, errors |-> 0]
    ELSE [val |-> -1, p |-> p + 1, errors |-> 1]

\* the loop "for (i = 0; i < n; i++)" of processing_vector after n rounds,
\* started at position p with last_val = 0 and val = val0: the position,
\* last_val, val, the values assigned (v[k] is the C v[k - 1]) and the
\* errors reported
RECURSIVE processing_loop(_, _, _, _)
processing_loop(s, p, val0, n) ==
    IF n = 0
    THEN [p |-> p, last_val |-> 0, val |-> val0, v |-> << >>, errors |-> 0]
    ELSE LET b == processing_loop(s, p, val0, n - 1)
             c == next_processing_code(s, b.p)
             last_val == IF b.last_val >= 0 THEN c.val ELSE b.last_val
             val == IF last_val >= 0 THEN last_val ELSE b.val
         IN [p |-> IF b.last_val >= 0 THEN c.p ELSE b.p,
             last_val |-> last_val,
             val |-> val,
             v |-> Append(b.v, val),
             errors |-> b.errors + (IF b.last_val >= 0 THEN c.errors ELSE 0)]

\* while (*p && *p != '/') p++
RECURSIVE section_end(_, _)
section_end(s, p) ==
    IF CharAt(s, p) = NUL \/ CharAt(s, p) = "/" THEN p
    ELSE section_end(s, p + 1)

\* Element::processing_vector(in_v, out_v, errh) for the processing()
\* string s
processing_vector(e, s) ==
    LET ins == processing_loop(s, 1, 0, ninputs(e))
        pe == section_end(s, ins.p)
        p_out == IF CharAt(s, pe) = NUL THEN 1 ELSE pe + 1
        outs == processing_loop(s, p_out, ins.val, noutputs(e))
    IN [in_v |-> ins.v, out_v |-> outs.v, errors |-> ins.errors + outs.errors]

(***************************************************************************)
(* The port lifecycle of one element under its router.                     *)
(*                                                                         *)
(* call is the most recent call: its name, arguments and result.           *)
(* ports_initialized: initialize_ports has run on the current port arrays. *)
(* connected: for each port for which connect_port has returned 0 since    *)
(* then, the arguments <<isoutput, port, e, e_port>> of the last such call.*)
(* fault: a call dereferenced a null router pointer, or read a page that   *)
(* cannot be read.                                                         *)
(* statics: the file-scope flags of configuration().                       *)
(* nelements_allocated: the static counter of elements.                    *)
(* threads: the positions of the threads inside a method, if any.          *)
(***************************************************************************)
Call(op, args, ret) == [op |-> op, args |-> args, ret |-> ret]

Disciplines == {VAGNOSTIC, VPUSH, VPULL}

\* the discipline vectors of length n the router is made to give to
\* initialize_ports: the three disciplines in turn from each starting
\* point
DisciplineSeq == <<VAGNOSTIC, VPUSH, VPULL>>
DisciplineVectors(n) ==
    { [k \in 1..n |-> DisciplineSeq[((k + r) % 3) + 1]] : r \in 0..2 }

\* the calls <<isoutput, port, e, e_port>> made of connect_port: every port
\* number from -1 to MaxPorts on each side with each peer port index >= 0,
\* and the first port of each side with each negative one
ConnectCalls ==
    { <<isoutput, port, pe, e_port>> :
        isoutput \in BOOLEAN, port \in -1..MaxPorts, pe \in Peers,
        e_port \in { q \in PeerPorts : q >= 0 } }
    \cup { <<isoutput, 0, pe, e_port>> :
        isoutput \in BOOLEAN, pe \in Peers,
        e_port \in { q \in PeerPorts : q < 0 } }

\* the port counts asked of set_nports and notify_nports: a negative count
\* on either side, no ports, ports that fit the inline buffer, and each way
\* MaxPorts ports go to the heap (inputs, outputs, a whole side)
PortPairs ==
    { <<-1, 0>>, <<0, -1>>, <<0, 0>>, <<1, 1>>, <<1, 2>>,
      <<MaxPorts - 3, 3>>, <<3, MaxPorts - 3>>, <<0, MaxPorts>>,
      <<MaxPorts, 0>> }

\* the classes of the elements of the lifecycle specification
LifecycleClasses ==
    { BaseClass, Class(<<"-">>, PULL, COMPLETE_FLOW) }

Init ==
    /\ el = NewElement
    /\ rt = NewRouter
    /\ cls \in LifecycleClasses
    /\ call = Call("Element", << >>, 0)
    /\ ports_initialized = FALSE
    /\ connected = {}
    /\ fault = FALSE
    /\ statics = Statics(0, 0)
    /\ nelements_allocated = 1
    /\ threads = NoThreads

\* the router adopts the element (Router::add_element)
AttachRouter ==
    /\ ~fault
    /\ el.router = NULL
    /\ el' = [el EXCEPT !.router = 1]
    /\ call' = Call("add_element", << >>, 0)
    /\ UNCHANGED <<rt, cls, ports_initialized, connected, fault, statics,
                   nelements_allocated, threads>>

\* a call of set_nports(new_ninputs, new_noutputs), from the element's own
\* code (set_ninputs, set_noutputs, add_input, ...): in its constructor, in
\* any hook the router calls, or while the router runs.  Of the arguments,
\* call keeps whether both counts are non-negative.
SetNportsCall(new_ninputs, new_noutputs, mem) ==
    LET r == set_nports(el, rt, ProcIsPULL(cls), new_ninputs, new_noutputs,
                        mem) IN
    /\ ~fault
    /\ el' = r.el
    /\ rt' = r.rt
    /\ fault' = r.fault
    /\ UNCHANGED <<statics, nelements_allocated, threads>>
    /\ call' = Call("set_nports",
                    <<new_ninputs >= 0 /\ new_noutputs >= 0>>, r.ret)
    /\ ports_initialized' = (ports_initialized /\ (r.ret # 0 \/ r.fault))
    /\ connected' = IF r.ret # 0 \/ r.fault THEN connected ELSE {}
    /\ UNCHANGED cls

\* Router::initialize starts: the router tells the element how many of its
\* ports the configuration uses
RouterNotifyNports(want_in, want_out, mem) ==
    LET r == notify_nports(el, rt, cls, want_in, want_out, mem) IN
    /\ ~fault
    /\ el.router # NULL
    /\ rt.state = ROUTER_NEW
    /\ el' = r.el
    /\ rt' = [r.rt EXCEPT !.state = ROUTER_PRECONFIGURE]
    /\ fault' = r.fault
    /\ UNCHANGED <<statics, nelements_allocated, threads>>
    /\ call' = Call("notify_nports", << >>, r.ret)
    /\ UNCHANGED <<cls, ports_initialized, connected>>

\* the router has resolved the disciplines of the element's ports and
\* initializes them, once for the port arrays the element has
RouterInitializePorts(in_v, out_v) ==
    /\ ~fault
    /\ el.router # NULL
    /\ rt.state = ROUTER_PRECONFIGURE
    /\ ~rt.have_connections
    /\ ~ports_initialized
    /\ el' = initialize_ports(el, in_v, out_v)
    /\ call' = Call("initialize_ports", <<in_v, out_v>>, 0)
    /\ ports_initialized' = TRUE
    /\ connected' = {}
    /\ UNCHANGED <<rt, cls, fault, statics,
                   nelements_allocated, threads>>

\* the router installs one end of a connection
RouterConnectPort(isoutput, port, pe, e_port) ==
    LET r == connect_port(el, isoutput, port, pe, e_port) IN
    /\ ~fault
    /\ el.router # NULL
    /\ rt.state = ROUTER_PRECONFIGURE
    /\ ~rt.have_connections
    /\ ports_initialized
    /\ el' = r.el
    /\ call' = Call("connect_port", << >>, r.ret)
    /\ connected' = IF r.ret = 0
                    THEN { c \in connected : <<c[1], c[2]>> # <<isoutput, port>> }
                             \cup { <<isoutput, port, pe, e_port>> }
                    ELSE connected
    /\ UNCHANGED <<rt, cls, ports_initialized, fault, statics,
                   nelements_allocated, threads>>

\* the router has installed every connection
RouterSetConnections ==
    /\ ~fault
    /\ rt.state = ROUTER_PRECONFIGURE
    /\ ports_initialized
    /\ ~rt.have_connections
    /\ rt' = [rt EXCEPT !.have_connections = TRUE]
    /\ call' = Call("set_connections", << >>, 0)
    /\ UNCHANGED <<el, cls, ports_initialized, connected, fault, statics,
                   nelements_allocated, threads>>

\* the router enters the next state of its life: the ports are frozen from
\* ROUTER_PREINITIALIZE on, which it enters with its connections installed
RouterAdvance ==
    /\ ~fault
    /\ rt.have_connections
    /\ rt.state \in ROUTER_PRECONFIGURE..ROUTER_LIVE
    /\ rt' = [rt EXCEPT !.state = @ + 1]
    /\ call' = Call("router_state", << >>, 0)
    /\ UNCHANGED <<el, cls, ports_initialized, connected, fault, statics,
                   nelements_allocated, threads>>

\* a set_nports call for these counts may reach operator new[]: the ports
\* are not frozen and do not all fit the inline buffer.  What new[] gives
\* is drawn only then.
MayAllocate(new_ninputs, new_noutputs) ==
    /\ new_ninputs + new_noutputs > INLINE_PORTS
    /\ ~(rt.have_connections /\ rt.state >= ROUTER_PREINITIALIZE)

Next ==
    \/ AttachRouter
    \/ \E io \in PortPairs, mem \in MemOutcomes :
          /\ mem = MemOk \/ MayAllocate(io[1], io[2])
          /\ SetNportsCall(io[1], io[2], mem)
    \/ \E io \in PortPairs, mem \in MemOutcomes :
          /\ io[1] >= 0 /\ io[2] >= 0
          /\ mem = MemOk \/ MayAllocate(io[1], io[2])
          /\ RouterNotifyNports(io[1], io[2], mem)
    \/ \E in_v \in DisciplineVectors(ninputs(el)),
          out_v \in DisciplineVectors(noutputs(el)) :
          RouterInitializePorts(in_v, out_v)
    \/ \E c \in ConnectCalls : RouterConnectPort(c[1], c[2], c[3], c[4])
    \/ RouterSetConnections
    \/ RouterAdvance

Spec == Init /\ [][Next]_vars

(***************************************************************************)
(* Claims about the port lifecycle (specification Spec).                   *)
(***************************************************************************)
\* the port records of the element's two arrays
InputPorts == PortArray(el, 0)
OutputPorts == PortArray(el, 1)

\* C1 as stated: after initialize_ports(in_v, out_v), an input port is active
\* iff its discipline is PULL and an output port is active iff its
\* discipline is PUSH, whatever the three values given.
C1_ActiveIffPullPush ==
    call.op = "initialize_ports" =>
        /\ \A i \in 1..ninputs(el) :
             allowed(InputPorts[i]) <=> call.args[1][i] = VPULL
        /\ \A o \in 1..noutputs(el) :
             allowed(OutputPorts[o]) <=> call.args[2][o] = VPUSH

\* C1 amended: after initialize_ports(in_v, out_v), an input port is active
\* iff its discipline is PULL, and an output port is active iff its
\* discipline is not PULL (PUSH or AGNOSTIC).
C1_ActiveIffPullNotPull ==
    call.op = "initialize_ports" =>
        /\ \A i \in 1..ninputs(el) :
             allowed(InputPorts[i]) <=> call.args[1][i] = VPULL
        /\ \A o \in 1..noutputs(el) :
             allowed(OutputPorts[o]) <=> call.args[2][o] # VPULL

\* initialize_ports has just run on an element with an agnostic output, a
\* push output, a pull output, a pull input and a push input
C1_Witness ==
    /\ call.op = "initialize_ports"
    /\ \E o \in 1..noutputs(el) :
         call.args[2][o] = VAGNOSTIC /\ allowed(OutputPorts[o])
    /\ \E o \in 1..noutputs(el) :
         call.args[2][o] = VPUSH /\ allowed(OutputPorts[o])
    /\ \E o \in 1..noutputs(el) :
         call.args[2][o] = VPULL /\ ~allowed(OutputPorts[o])
    /\ \E i \in 1..ninputs(el) :
         call.args[1][i] = VPULL /\ allowed(InputPorts[i])
    /\ \E i \in 1..ninputs(el) :
         call.args[1][i] = VPUSH /\ ~allowed(InputPorts[i])

\* C2 as stated: once initialize_ports has run, every active port holds a
\* non-null peer element and a peer port index >= 0, and every inactive
\* port holds no peer.
C2_ActiveHoldsPeer ==
    ports_initialized =>
        \A side \in 0..1 : \A k \in 1..el.nports[side] :
            LET P == PortArray(el, side)[k] IN
            IF allowed(P) THEN P.e # NULL /\ P.port >= 0
            ELSE P.e = NULL /\ P.port < 0

\* C2 amended: in every state reachable once initialize_ports has run, as
\* long as set_nports has not succeeded since (it installs other port
\* arrays, which hold what their memory held until initialize_ports runs
\* again): a port for which connect_port has not succeeded holds no peer,
\* a null peer element with the index 0 if the port is active and a
\* negative index if it is inactive; a port for which connect_port has
\* succeeded holds exactly the peer of the last such call, a non-null peer
\* element and the peer port index given, and it is active iff that index
\* is >= 0.
C2_PeerOnceConnected ==
    ports_initialized =>
        \A side \in 0..1 : \A k \in 1..el.nports[side] :
            LET P == PortArray(el, side)[k]
                C == { c \in connected : c[1] = (side = 1) /\ c[2] = k - 1 }
            IN
            IF C = {}
            THEN P.e = NULL /\ (IF allowed(P) THEN P.port = 0 ELSE P.port < 0)
            ELSE /\ \A c \in C : P = Port(c[3], c[4])
                 /\ P.e # NULL
                 /\ allowed(P) <=> (\A c \in C : c[4] >= 0)

\* an element with a connected active port, an active port not yet
\* connected, an inactive port never connected, and a port that
\* connect_port has just given a peer with the index -1: it holds the peer
\* and is inactive
C2_Witness ==
    /\ ports_initialized
    /\ \E k \in 1..noutputs(el) :
         allowed(OutputPorts[k]) /\ OutputPorts[k].e # NULL
    /\ \E k \in 1..ninputs(el) :
         allowed(InputPorts[k]) /\ InputPorts[k].e = NULL
    /\ \E k \in 1..ninputs(el) :
         ~allowed(InputPorts[k]) /\ InputPorts[k].e = NULL
    /\ call.op = "connect_port"
    /\ call.ret = 0
    /\ \E k \in 1..noutputs(el) :
         /\ <<TRUE, k - 1, 1, -1>> \in connected
         /\ ~allowed(OutputPorts[k])
         /\ OutputPorts[k] = Port(1, -1)

\* C3: every set_nports call with non-negative counts made once the router
\* is at or past ROUTER_PREINITIALIZE returns -EBUSY and leaves the element
\* (its port arrays and port counts) and the router as they were.
C3_FrozenPorts ==
    [][ (/\ rt.state >= ROUTER_PREINITIALIZE
         /\ call'.op = "set_nports"
         /\ call'.args = <<TRUE>>)
        => (call'.ret = -EBUSY /\ el' = el /\ rt' = rt) ]_vars

\* set_nports has just failed with -EBUSY on an element that has ports, at
\* or past ROUTER_PREINITIALIZE
C3_Witness ==
    /\ call.op = "set_nports"
    /\ call.args = <<TRUE>>
    /\ call.ret = -EBUSY
    /\ rt.state >= ROUTER_PREINITIALIZE
    /\ ninputs(el) > 0
    /\ noutputs(el) > 0

(***************************************************************************)
(* notify_nports applied to port-count specifiers (specification           *)
(* SpecNotify): an element of each class, adopted by a new router, is told *)
(* the port counts the configuration uses.                                 *)
(***************************************************************************)
\* the most inputs, and the most outputs, a configuration asks for
MaxWant == 4

\* the port_count() strings of the element classes tried
PortCounts ==
    { <<"1">>, <<"0">>, <<"3">>, <<"-">>, <<"-","2">>, <<"2","-">>,
      <<"0","/","1">>, <<"1","/","0">>, <<"1","-","2">>,
      <<"1","-","2","/","=">>, <<"1","-","2","/","0">>,
      <<"1","/","-","2">>, <<"2","-","/","-">>, <<"1","-","/","=">>,
      <<"-","/","=">>, <<"1","0","-","1","2","/","1">>,
      <<"0","-","1","/","2","-","3">>,
      <<"x">>, <<"1","/","x">>, <<"1","x","/","1">>, <<"=","/","1">>,
      <<"1","/","=","1">>, <<"1","/","1","/","1">>, <<"1","-","-","2">>,
      <<"1","/">>, <<"1","-","2","/">>, <<"/","1">>, <<"/">>, <<"=">> }

NotifyClasses == { Class(pc, AGNOSTIC, COMPLETE_FLOW) : pc \in PortCounts }

\* an element the router has adopted
AttachedElement == [NewElement EXCEPT !.router = 1]

InitNotify ==
    /\ el = AttachedElement
    /\ rt = NewRouter
    /\ cls \in NotifyClasses
    /\ call = Call("add_element", << >>, 0)
    /\ ports_initialized = FALSE
    /\ connected = {}
    /\ fault = FALSE
    /\ statics = Statics(0, 0)
    /\ nelements_allocated = 1
    /\ threads = NoThreads

\* notify_nports(want_in, want_out, errh), with memory for the port arrays
NotifyNportsCall(want_in, want_out) ==
    /\ el' = notify_nports(el, rt, cls, want_in, want_out, MemOk).el
    /\ rt' = notify_nports(el, rt, cls, want_in, want_out, MemOk).rt
    /\ fault' = notify_nports(el, rt, cls, want_in, want_out, MemOk).fault
    /\ UNCHANGED <<statics, nelements_allocated, threads>>
    /\ call' = Call("notify_nports", <<want_in, want_out>>,
                    notify_nports(el, rt, cls, want_in, want_out, MemOk).ret)
    /\ UNCHANGED <<cls, ports_initialized, connected>>

NextNotify == \E want_in, want_out \in 0..MaxWant :
                  NotifyNportsCall(want_in, want_out)

SpecNotify == InitNotify /\ [][NextNotify]_vars

\* ---- a reference interpreter of the port-count grammar of the spec ----
\* the position of the first c in the sequence t, 0 if there is none
RefFind(t, c) ==
    IF \E k \in 1..Len(t) : t[k] = c
    THEN CHOOSE k \in 1..Len(t) : t[k] = c /\ \A m \in 1..(k - 1) : t[m] # c
    ELSE 0

RefAllDigits(t) == \A k \in 1..Len(t) : t[k] \in Range(Digits)

\* the number a sequence of digits writes
RECURSIVE RefNumber(_)
RefNumber(t) ==
    IF t = << >> THEN 0
    ELSE 10 * RefNumber(SubSeq(t, 1, Len(t) - 1)) + DigitVal(t[Len(t)])

RefLeft(t) == SubSeq(t, 1, RefFind(t, "-") - 1)
RefRight(t) == SubSeq(t, RefFind(t, "-") + 1, Len(t))

\* a range of the grammar: N, N-M, -M, N-, -
RefIsRange(t) ==
    IF RefFind(t, "-") = 0 THEN t # << >> /\ RefAllDigits(t)
    ELSE RefAllDigits(RefLeft(t)) /\ RefAllDigits(RefRight(t))

RefLo(t) ==
    IF RefFind(t, "-") = 0 THEN RefNumber(t)
    ELSE IF RefLeft(t) = << >> THEN 0 ELSE RefNumber(RefLeft(t))

\* the upper end, INT_MAX when the range has none
RefHi(t) ==
    IF RefFind(t, "-") = 0 THEN RefNumber(t)
    ELSE IF RefRight(t) = << >> THEN INT_MAX ELSE RefNumber(RefRight(t))

RefInRange(pc) ==
    IF RefFind(pc, "/") = 0 THEN pc ELSE SubSeq(pc, 1, RefFind(pc, "/") - 1)
RefOutRange(pc) ==
    IF RefFind(pc, "/") = 0 THEN pc
    ELSE SubSeq(pc, RefFind(pc, "/") + 1, Len(pc))

RefGoodRange(t) == RefIsRange(t) /\ RefLo(t) <= RefHi(t)

\* a well-formed specifier: one range, or an input range, '/', and an output
\* range or '='; no range is empty
WellFormedPortCount(pc) ==
    /\ RefGoodRange(RefInRange(pc))
    /\ RefOutRange(pc) = <<"=">> \/ RefGoodRange(RefOutRange(pc))

RefClamp(n, t) ==
    IF n < RefLo(t) THEN RefLo(t) ELSE IF n > RefHi(t) THEN RefHi(t) ELSE n

RefInputs(pc, want_in) == RefClamp(want_in, RefInRange(pc))
RefOutputs(pc, want_in, want_out) ==
    IF RefOutRange(pc) = <<"=">> THEN RefInputs(pc, want_in)
    ELSE RefClamp(want_out, RefOutRange(pc))

\* C4: for every well-formed port-count specifier and every pair of counts
\* wanted, notify_nports returns 0 and installs the counts the reference
\* interpreter gives (the wanted inputs clamped into the input range; the
\* wanted outputs clamped into the output range, or the resolved input
\* count for '='; one range without '/' serves both sides), and both counts
\* lie within the declared ranges.
C4_PortCountResolution ==
    (call.op = "notify_nports" /\ WellFormedPortCount(cls.port_count)) =>
        /\ call.ret = 0
        /\ ninputs(el) = RefInputs(cls.port_count, call.args[1])
        /\ noutputs(el) = RefOutputs(cls.port_count, call.args[1], call.args[2])
        /\ ninputs(el) >= RefLo(RefInRange(cls.port_count))
        /\ ninputs(el) <= RefHi(RefInRange(cls.port_count))
        /\ \/ RefOutRange(cls.port_count) = <<"=">> /\ noutputs(el) = ninputs(el)
           \/ /\ RefOutRange(cls.port_count) # <<"=">>
              /\ noutputs(el) >= RefLo(RefOutRange(cls.port_count))
              /\ noutputs(el) <= RefHi(RefOutRange(cls.port_count))

\* "1-2/=" with 3 inputs and 1 output wanted has resolved to 2 and 2
C4_Witness ==
    /\ call.op = "notify_nports"
    /\ cls.port_count = <<"1","-","2","/","=">>
    /\ call.args = <<3, 1>>
    /\ ninputs(el) = 2
    /\ noutputs(el) = 2

(***************************************************************************)
(* port_flow applied to flow codes (specification SpecFlow): an element of *)
(* each class, with each pair of port counts, is asked for the flow from   *)
(* each of its ports.  call.ret is the travels vector written.             *)
(***************************************************************************)
\* the most input ports, and the most output ports, of the element
MaxFlowPorts == 4

\* the texts of the flow_code() strings tried: the text of the sentinel in
\* another constant, and codes met in the documentation
FlowTexts ==
    { <<"x","/","x">>,
      <<"x","/","y">>,
      <<"x","y","/","x","x","y","x">>,
      <<"x","y","/","x","y">>,
      <<"#","/","#">>,
      <<"#","#","/","#","#">>,
      <<"#","/","x">>,
      <<"x","/","#">>,
      <<"#","/","[","^","#","]">>,
      <<"[","x","#","]","/","x","#">>,
      <<"[","x","#","]","[","x","#","]","[","x","#","]","/",
                 "x","#","#","#","#","#","#">>,
      <<"[","a","b","z","]","/","a","[","c","d","e","]">>,
      <<"[","a","b","]","c","/","a">>,
      <<"[","^","b","c","]","/","#">>,
      <<"[","^","b","c","]","/","b","x">>,
      <<"[","a","]","]","/","a">>,
      <<"x">>,
      <<"x","/">>,
      <<"x","/","[","a">>,
      <<"x","1","/","x">>,
      <<"/","x">>,
      <<"x","y">>,
      <<"a","]","/","x">> }

\* what the build may have stored just below a flow code string, down to
\* the page that cannot be read: a NUL, a letter, a '#', an open bracket, a
\* whole bracket group, an empty bracket group, and a ']' with no '['
\* below it (alone, and above a NUL)
BeforeBytes == { <<NUL>>, <<"x">>, <<"#">>, <<"[">>, <<"[","y","]">>, <<"[","]">>, <<"]">>, <<NUL,"]">> }

\* a flow_code() that returns a null pointer
NullFlow == StrAt("null", << >>, << >>)

\* the flow_code() strings of the element classes tried
FlowCodes ==
    {COMPLETE_FLOW, NullFlow}
    \cup { StrAt("f", s, b) : s \in FlowTexts, b \in BeforeBytes }

FlowClasses == { Class(<<"-">>, AGNOSTIC, f) : f \in FlowCodes }

\* an adopted element given new_ninputs inputs and new_noutputs outputs
ElementWithPorts(c, new_ninputs, new_noutputs) ==
    set_nports(AttachedElement, NewRouter, ProcIsPULL(c),
               new_ninputs, new_noutputs, MemOk).el

InitFlow ==
    /\ cls \in FlowClasses
    /\ \E i, o \in 0..MaxFlowPorts : el = ElementWithPorts(cls, i, o)
    /\ rt = NewRouter
    /\ call = Call("set_nports", << >>, 0)
    /\ ports_initialized = FALSE
    /\ connected = {}
    /\ fault = FALSE
    /\ statics = Statics(0, 0)
    /\ nelements_allocated = 1
    /\ threads = NoThreads

\* port_flow(isoutput, port, &travels)
PortFlowCall(isoutput, port) ==
    /\ ~fault
    /\ call' = Call("port_flow", <<isoutput, port>>,
                    port_flow(el, cls.flow_code, isoutput, port).travels)
    /\ fault' = port_flow(el, cls.flow_code, isoutput, port).fault
    /\ UNCHANGED <<el, rt, cls, ports_initialized, connected, statics,
                   nelements_allocated, threads>>

NextFlow == \E isoutput \in BOOLEAN, port \in -1..MaxFlowPorts :
                PortFlowCall(isoutput, port)

SpecFlow == InitFlow /\ [][NextFlow]_vars

\* the port of the most recent port_flow call is a port of the element
FlowPortInRange ==
    /\ call.op = "port_flow"
    /\ call.args[2] >= 0
    /\ call.args[2] < nports(el, call.args[1])

\* the number of ports on the other side from the port asked about
FlowNother == nports(el, ~call.args[1])

\* ---- a reference reading of the flow-code grammar of the spec ----
\* the input section (side FALSE) or the output section (side TRUE) of a
\* flow code with a '/'
RefFlowSection(s, isoutput) ==
    IF isoutput THEN SubSeq(s, RefFind(s, "/") + 1, Len(s))
    ELSE SubSeq(s, 1, RefFind(s, "/") - 1)

RefIsCodeChar(c) == c \in Range(Upper) \cup Range(Lower) \cup {"#"}

\* the characters listed in a bracket group whose inside is t
RefListed(t) == IF t # << >> /\ t[1] = "^" THEN Tail(t) ELSE t

\* a section is a sequence of port codes: a letter, '#', or a closed bracket
\* group of letters and '#', maybe negated
RECURSIVE RefIsCodes(_)
RefIsCodes(t) ==
    IF t = << >> THEN TRUE
    ELSE IF t[1] = "["
    THEN /\ RefFind(t, "]") # 0
         /\ \A c \in Range(RefListed(SubSeq(t, 2, RefFind(t, "]") - 1))) :
                RefIsCodeChar(c)
         /\ RefIsCodes(SubSeq(t, RefFind(t, "]") + 1, Len(t)))
    ELSE RefIsCodeChar(t[1]) /\ RefIsCodes(Tail(t))

\* a well-formed flow code: a non-empty input section, one '/', a non-empty
\* output section
WellFormedFlow(s) ==
    /\ RefFind(s, "/") # 0
    /\ RefFlowSection(s, FALSE) # << >>
    /\ RefFlowSection(s, TRUE) # << >>
    /\ RefFind(RefFlowSection(s, TRUE), "/") = 0
    /\ RefIsCodes(RefFlowSection(s, FALSE))
    /\ RefIsCodes(RefFlowSection(s, TRUE))

\* a port code: the characters it lists and whether it is negated
RefCode(neg, chars) == [neg |-> neg, chars |-> chars]

\* the port codes of a section, in order
RECURSIVE RefCodes(_)
RefCodes(t) ==
    IF t = << >> THEN << >>
    ELSE IF t[1] = "["
    THEN <<RefCode(Len(t) > 1 /\ t[2] = "^",
                   Range(RefListed(SubSeq(t, 2, RefFind(t, "]") - 1))))>>
         \o RefCodes(SubSeq(t, RefFind(t, "]") + 1, Len(t)))
    ELSE <<RefCode(FALSE, {t[1]})>> \o RefCodes(Tail(t))

\* the code of port `port` (0-based) of a section: past the end, the last
RefCodeAt(t, port) ==
    RefCodes(t)[IF port + 1 > Len(RefCodes(t)) THEN Len(RefCodes(t))
                ELSE port + 1]

\* the letters a code stands for
RefLetterSet(code) ==
    IF code.neg THEN (Range(Upper) \cup Range(Lower)) \ code.chars
    ELSE code.chars \ {"#"}

\* the port numbers a code at port `port` stands for; one bit per port
\* number, 128 of them
RefPortSet(code, port) ==
    IF code.neg THEN (0..127) \ (IF "#" \in code.chars THEN {port} ELSE {})
    ELSE IF "#" \in code.chars THEN {port} ELSE {}

RefMatch(c1, port1, c2, port2) ==
    \/ RefLetterSet(c1) \cap RefLetterSet(c2) # {}
    \/ RefPortSet(c1, port1) \cap RefPortSet(c2, port2) # {}

\* may packets travel between port `port` of side isoutput and port k of
\* the other side, by the reference reading of flow code s
RefTravels(s, isoutput, port, k) ==
    RefMatch(RefCodeAt(RefFlowSection(s, isoutput), port), port,
             RefCodeAt(RefFlowSection(s, ~isoutput), k), k)

\* the flow code of the element's class is the text `str`, and the element
\* has nin inputs and nout outputs
FlowCase(str, nin, nout) ==
    /\ cls.flow_code.str = str
    /\ cls.flow_code.ptr # "COMPLETE_FLOW"
    /\ ninputs(el) = nin
    /\ noutputs(el) = nout

\* C5 as stated: port_flow is symmetric for every flow code: entry k of
\* port_flow(isoutput, port) equals entry `port` of port_flow(!isoutput, k),
\* for every port and every k in range.
C5_FlowSymmetric ==
    FlowPortInRange =>
        \A k \in 0..(FlowNother - 1) :
            call.ret[k + 1] =
                port_flow(el, cls.flow_code, ~call.args[1], k)
                    .travels[call.args[2] + 1]

\* C5 amended: port_flow is symmetric for every well-formed flow code (a
\* non-empty input section, one '/', a non-empty output section, each a
\* sequence of letters, '#' and closed bracket groups of letters and '#'):
\* entry k of port_flow(isoutput, port) equals entry `port` of
\* port_flow(!isoutput, k), for every port and every k in range.
C5_FlowSymmetricWellFormed ==
    (FlowPortInRange /\ WellFormedFlow(cls.flow_code.str)) =>
        \A k \in 0..(FlowNother - 1) :
            call.ret[k + 1] =
                port_flow(el, cls.flow_code, ~call.args[1], k)
                    .travels[call.args[2] + 1]

\* port_flow has answered for input 1 of "[x#][x#][x#]/x######" with 3
\* inputs and 4 outputs: packets travel to outputs 0 and 1 only
C5_Witness ==
    /\ FlowCase(<<"[","x","#","]","[","x","#","]","[","x","#","]","/",
                  "x","#","#","#","#","#","#">>, 3, 4)
    /\ call.op = "port_flow"
    /\ call.args = <<FALSE, 1>>
    /\ call.ret = <<TRUE, TRUE, FALSE, FALSE>>

\* C6: for a well-formed flow code, entry k of port_flow(isoutput, port) is
\* true iff the code at position `port` of that side's section and the code
\* at position k of the other section have a common member, where a letter
\* stands for itself, a bracket group for what it lists (a negated one for
\* what it does not list), '#' for the port's own number, and a position
\* past the end of a section takes the section's last code.  "xy/xxyx" with
\* 2 inputs and 4 outputs gives [T,T,F,T] from input 0, [F,F,T,F] from input
\* 1 and [T,F] from output 0; "#/[^#]" with 3 inputs and 3 outputs gives
\* [T,F,T] from input 1.
C6_FlowMatchesCodes ==
    /\ (FlowPortInRange /\ WellFormedFlow(cls.flow_code.str)) =>
          \A k \in 0..(FlowNother - 1) :
              call.ret[k + 1] <=>
                  RefTravels(cls.flow_code.str, call.args[1], call.args[2], k)
    /\ (call.op = "port_flow" /\ FlowCase(<<"x","y","/","x","x","y","x">>, 2, 4)) =>
          /\ call.args = <<FALSE, 0>> => call.ret = <<TRUE, TRUE, FALSE, TRUE>>
          /\ call.args = <<FALSE, 1>> => call.ret = <<FALSE, FALSE, TRUE, FALSE>>
          /\ call.args = <<TRUE, 0>> => call.ret = <<TRUE, FALSE>>
    /\ (call.op = "port_flow" /\ FlowCase(<<"#","/","[","^","#","]">>, 3, 3)) =>
          (call.args = <<FALSE, 1>> => call.ret = <<TRUE, FALSE, TRUE>>)

\* port_flow has answered [T,F,T] for input 1 of "#/[^#]" with 3 inputs and
\* 3 outputs: both sections are shorter than the port counts
C6_Witness ==
    /\ FlowCase(<<"#","/","[","^","#","]">>, 3, 3)
    /\ call.op = "port_flow"
    /\ call.args = <<FALSE, 1>>
    /\ call.ret = <<TRUE, FALSE, TRUE>>

\* C7: for flow code "#/#" on an element with n inputs and n outputs, entry
\* j of port_flow(false, i) is true iff i = j, for every in-range i and j;
\* and a '#' never matches a letter: with "#/x" or "x/#" no entry is true.
C7_HashMatchesSamePort ==
    /\ (FlowPortInRange /\ cls.flow_code.str = <<"#","/","#">>
          /\ ninputs(el) = noutputs(el) /\ call.args[1] = FALSE) =>
          \A j \in 0..(noutputs(el) - 1) :
              call.ret[j + 1] <=> (call.args[2] = j)
    /\ (FlowPortInRange /\ cls.flow_code.str \in {<<"#","/","x">>, <<"x","/","#">>}) =>
          \A k \in 1..FlowNother : ~call.ret[k]

\* port_flow has answered [F,F,T] for input 2 of "#/#" with 3 inputs and 3
\* outputs
C7_Witness ==
    /\ FlowCase(<<"#","/","#">>, 3, 3)
    /\ call.op = "port_flow"
    /\ call.args = <<FALSE, 2>>
    /\ call.ret = <<FALSE, FALSE, TRUE>>

\* the letters A-Z, a-z that the sequence t does not hold, in order
RefLettersNotIn(t) == SelectSeq(Upper \o Lower, LAMBDA c : c \notin Range(t))

\* the flow code t with every negated bracket group [^L] replaced by the
\* bracket group that lists the letters not in L
RECURSIVE ExpandCaret(_)
ExpandCaret(t) ==
    IF t = << >> THEN << >>
    ELSE IF t[1] = "[" /\ RefFind(t, "]") # 0
    THEN (IF Len(t) > 1 /\ t[2] = "^"
          THEN <<"[">> \o RefLettersNotIn(SubSeq(t, 3, RefFind(t, "]") - 1))
               \o <<"]">>
          ELSE SubSeq(t, 1, RefFind(t, "]")))
         \o ExpandCaret(SubSeq(t, RefFind(t, "]") + 1, Len(t)))
    ELSE <<t[1]>> \o ExpandCaret(Tail(t))

\* C8 as stated: a negated bracket code [^L] is equivalent to the bracket
\* code that lists exactly the letters A-Z and a-z not in L: replacing one
\* by the other in the flow code changes no port_flow result.
C8_CaretListsOtherLetters ==
    call.op = "port_flow" =>
        call.ret = port_flow(el, StrAt(cls.flow_code.ptr,
                                       ExpandCaret(cls.flow_code.str),
                                       cls.flow_code.before),
                             call.args[1], call.args[2]).travels

\* C9: when flow_code() is the complete-flow sentinel, port_flow writes, for
\* every in-range port, a vector of as many entries as there are ports on
\* the other side, all true; for an out-of-range port (negative or >= the
\* port count of its side), with any flow code, it writes an all-false
\* vector of that length.
C9_CompleteFlowFastPath ==
    call.op = "port_flow" =>
        /\ Len(call.ret) = FlowNother
        /\ (FlowPortInRange /\ cls.flow_code.ptr = "COMPLETE_FLOW") =>
              \A k \in 1..FlowNother : call.ret[k]
        /\ ~FlowPortInRange => \A k \in 1..FlowNother : ~call.ret[k]

\* port_flow has answered [T,T,T] for input 1 of an element with the
\* sentinel flow code, 2 inputs and 3 outputs
C9_Witness ==
    /\ cls.flow_code = COMPLETE_FLOW
    /\ ninputs(el) = 2
    /\ noutputs(el) = 3
    /\ call.op = "port_flow"
    /\ call.args = <<FALSE, 1>>
    /\ call.ret = <<TRUE, TRUE, TRUE>>

(***************************************************************************)
(* processing_vector applied to processing codes (specification SpecProc): *)
(* an element of each class, with each pair of port counts, is asked for   *)
(* the disciplines of its ports.  call.ret is <<in_v, out_v>>.             *)
(***************************************************************************)
\* the most input ports, and the most output ports, of the element
MaxProcPorts == 4

\* the processing() strings of the element classes tried
ProcessingCodes ==
    { AGNOSTIC, PUSH, PULL, PUSH_TO_PULL, PULL_TO_PUSH,
      StrConst("p", <<"a","/","a","h">>),
      StrConst("p", <<"h","l","/","l","h">>),
      StrConst("p", <<"a","h","l">>),
      StrConst("p", <<"h","l","a","/","a","l","h">>),
      StrConst("p", <<"H","/","L">>),
      StrConst("p", <<"A","l","/","h">>),
      StrConst("p", <<"l","/","h","a","l","h","a","l">>),
      StrConst("p", <<"x">>),
      StrConst("p", <<"a","/">>),
      StrConst("p", <<"a","x","/","h">>) }

ProcClasses == { Class(<<"-">>, q, COMPLETE_FLOW) : q \in ProcessingCodes }

InitProc ==
    /\ cls \in ProcClasses
    /\ \E i, o \in 0..MaxProcPorts : el = ElementWithPorts(cls, i, o)
    /\ rt = NewRouter
    /\ call = Call("set_nports", << >>, 0)
    /\ ports_initialized = FALSE
    /\ connected = {}
    /\ fault = FALSE
    /\ statics = Statics(0, 0)
    /\ nelements_allocated = 1
    /\ threads = NoThreads

\* processing_vector(in_v, out_v, errh)
ProcessingVectorCall ==
    /\ call.op # "processing_vector"
    /\ call' = Call("processing_vector", << >>,
                    <<processing_vector(el, cls.processing.str).in_v,
                      processing_vector(el, cls.processing.str).out_v>>)
    /\ UNCHANGED <<el, rt, cls, ports_initialized, connected, fault, statics,
                   nelements_allocated, threads>>

NextProc == ProcessingVectorCall

SpecProc == InitProc /\ [][NextProc]_vars

\* ---- a reference reading of the processing grammar of the spec ----
\* the section of processing string s for one side: the part before the
\* '/' for inputs, the part after it for outputs, all of s if it has no '/'
RefProcSection(s, isoutput) ==
    IF RefFind(s, "/") = 0 THEN s
    ELSE IF isoutput THEN SubSeq(s, RefFind(s, "/") + 1, Len(s))
    ELSE SubSeq(s, 1, RefFind(s, "/") - 1)

RefIsProcCodes(t) ==
    t # << >> /\ \A k \in 1..Len(t) : t[k] \in {"h", "H", "l", "L", "a", "A"}

WellFormedProcessing(s) ==
    RefIsProcCodes(RefProcSection(s, FALSE))
    /\ RefIsProcCodes(RefProcSection(s, TRUE))

RefDiscipline(c) ==
    IF c \in {"h", "H"} THEN VPUSH
    ELSE IF c \in {"l", "L"} THEN VPULL
    ELSE VAGNOSTIC

\* the discipline of port k (0-based) of a section: the k-th code, or the
\* last code past the end
RefProcAt(t, k) == RefDiscipline(t[IF k + 1 > Len(t) THEN Len(t) ELSE k + 1])

\* C10: for a well-formed processing string, processing_vector gives port k
\* of a side the k-th code of that side's section (h/H push, l/L pull, a/A
\* agnostic), the section's last code for every port past its end, ignores
\* codes beyond the port count, and uses the single section for both sides
\* when there is no '/'; "a/ah" with 4 inputs and 4 outputs gives inputs
\* [A,A,A,A] and outputs [A,H,H,H].
C10_ProcessingVector ==
    /\ (call.op = "processing_vector"
          /\ WellFormedProcessing(cls.processing.str)) =>
          /\ Len(call.ret[1]) = ninputs(el)
          /\ Len(call.ret[2]) = noutputs(el)
          /\ \A k \in 0..(ninputs(el) - 1) :
                call.ret[1][k + 1] =
                    RefProcAt(RefProcSection(cls.processing.str, FALSE), k)
          /\ \A k \in 0..(noutputs(el) - 1) :
                call.ret[2][k + 1] =
                    RefProcAt(RefProcSection(cls.processing.str, TRUE), k)
    /\ (call.op = "processing_vector"
          /\ cls.processing.str = <<"a","/","a","h">>
          /\ ninputs(el) = 4 /\ noutputs(el) = 4) =>
          call.ret = << <<VAGNOSTIC, VAGNOSTIC, VAGNOSTIC, VAGNOSTIC>>,
                        <<VAGNOSTIC, VPUSH, VPUSH, VPUSH>> >>

\* processing_vector has answered for "a/ah" with 4 inputs and 4 outputs
C10_Witness ==
    /\ call.op = "processing_vector"
    /\ cls.processing.str = <<"a","/","a","h">>
    /\ ninputs(el) = 4
    /\ noutputs(el) = 4
    /\ call.ret[2] = <<VAGNOSTIC, VPUSH, VPUSH, VPUSH>>


(***************************************************************************)
(* Packet transfer: Element::push, Element::pull, Element::simple_action.  *)
(* A chain of ChainLen elements that all use the default push() and pull() *)
(* hooks; element Source feeds the chain's first input and element Sink    *)
(* takes what its last output emits.                                       *)
(***************************************************************************)
ChainLen == 3
MaxPackets == 2

Source == 1
Chain == 2..(ChainLen + 1)
Sink == ChainLen + 2

\* non-null packet pointers
Packets == 1..MaxPackets

\* the simple_action() of a class: the base class returns its argument, an
\* overriding class may return null or a different packet
SimpleActions == {"same", "null", "other"}

simple_action(c, p) ==
    CASE c = "same" -> p
      [] c = "null" -> NULL
      [] OTHER -> (p % MaxPackets) + 1

\* one entry of the record of calls made and returned, in program order
Event(ev, e, p) == [ev |-> ev, e |-> e, p |-> p]

\* output(0) and input(0) of an element: the peer its port record holds
output0(e) == PortArray(e, 1)[1]
input0(e) == PortArray(e, 0)[1]

RECURSIVE push_deferred(_, _, _, _)
\* a push() that returns to its caller before the downstream push runs
push_deferred(els, cs, e, p) ==
    IF e \notin DOMAIN els
    THEN <<Event("push", e, p), Event("push returns", e, NULL)>>
    ELSE <<Event("push", e, p),
           Event("simple_action", e, p),
           Event("simple_action returns", e, simple_action(cs[e], p)),
           Event("push returns", e, NULL)>>
         \o (IF simple_action(cs[e], p) # NULL
             THEN push_deferred(els, cs, output0(els[e]).e,
                                simple_action(cs[e], p))
             ELSE << >>)

RECURSIVE push(_, _, _, _)
\* Element::push(port, p) called on element e: the calls it makes, in order.
\* An element outside the chain has a push() of its own that keeps p.
push(els, cs, e, p) ==
    IF e \notin DOMAIN els
    THEN <<Event("push", e, p), Event("push returns", e, NULL)>>
    ELSE <<Event("push", e, p),
           Event("simple_action", e, p),
           Event("simple_action returns", e, simple_action(cs[e], p))>>
         \o (IF simple_action(cs[e], p) # NULL
             THEN push(els, cs, output0(els[e]).e, simple_action(cs[e], p))
             ELSE << >>)
         \o <<Event("push returns", e, NULL)>>

\* what a finished call returned: the packet of its last event
Returned(t) == t[Len(t)].p

\* the rest of pull() once input(0).pull() has returned p, with any
\* simple_action call made whether or not p is null
pull_rest_always(cs, e, p) ==
    <<Event("simple_action", e, p),
      Event("simple_action returns", e,
            IF p = NULL THEN NULL ELSE simple_action(cs[e], p)),
      Event("pull returns", e,
            IF p = NULL THEN NULL ELSE simple_action(cs[e], p))>>

\* the rest of Element::pull() once input(0).pull() has returned p
pull_rest(cs, e, p) ==
    IF p # NULL
    THEN <<Event("simple_action", e, p),
           Event("simple_action returns", e, simple_action(cs[e], p)),
           Event("pull returns", e, simple_action(cs[e], p))>>
    ELSE <<Event("pull returns", e, NULL)>>

RECURSIVE pull(_, _, _, _)
\* Element::pull(port) called on element e: the calls it makes, in order.
\* An element outside the chain has a pull() of its own that returns src.
pull(els, cs, e, src) ==
    IF e \notin DOMAIN els
    THEN <<Event("pull", e, NULL), Event("pull returns", e, src)>>
    ELSE <<Event("pull", e, NULL)>>
         \o pull(els, cs, input0(els[e]).e, src)
         \o pull_rest(cs, e, Returned(pull(els, cs, input0(els[e]).e, src)))

\* element e of a chain whose ports all have discipline v, connected to its
\* downstream neighbour (push) or its upstream neighbour (pull)
ChainElement(e, v) ==
    connect_port(initialize_ports(ElementWithPorts(BaseClass, 1, 1),
                                  <<v>>, <<v>>),
                 v = VPUSH, 0, IF v = VPUSH THEN e + 1 ELSE e - 1, 0).el

InitBridge ==
    /\ \E v \in {VPUSH, VPULL} : el = [e \in Chain |-> ChainElement(e, v)]
    /\ cls \in [Chain -> SimpleActions]
    /\ rt = [state |-> ROUTER_LIVE, have_connections |-> TRUE]
    /\ call = Call("initialize", << >>, << >>)
    /\ ports_initialized = TRUE
    /\ connected = {}
    /\ fault = FALSE
    /\ statics = Statics(0, 0)
    /\ nelements_allocated = ChainLen + 2
    /\ threads = NoThreads

\* an upstream element or the driver calls e->push(0, p)
PushCall(e, p) ==
    /\ port_active(el[e], TRUE, 0)
    /\ call' = Call("push", <<e, p>>, push(el, cls, e, p))
    /\ UNCHANGED <<el, rt, cls, ports_initialized, connected, fault, statics,
                   nelements_allocated, threads>>

\* a downstream element or the driver calls e->pull(0); src is what the
\* chain's source has to give
PullCall(e, src) ==
    /\ port_active(el[e], FALSE, 0)
    /\ call' = Call("pull", <<e, src>>, pull(el, cls, e, src))
    /\ UNCHANGED <<el, rt, cls, ports_initialized, connected, fault, statics,
                   nelements_allocated, threads>>

NextBridge ==
    \/ \E e \in Chain, p \in Packets : PushCall(e, p)
    \/ \E e \in Chain, src \in Packets \cup {NULL} : PullCall(e, src)

SpecBridge == InitBridge /\ [][NextBridge]_vars

\* the places of the record t where element e has an event of kind ev
At(t, ev, e) == { i \in DOMAIN t : t[i].ev = ev /\ t[i].e = e }

\* the one place of the record t where element e has an event of kind ev
\* (0 if there is none)
Where(t, ev, e) ==
    IF At(t, ev, e) = {} THEN 0 ELSE CHOOSE i \in At(t, ev, e) : TRUE

\* C11: the default push(0, p) pushes p' = simple_action(p) to output 0
\* exactly when p' is not null; the default pull(0) asks input 0 for a
\* packet, calls simple_action only when it got one, and returns
\* simple_action's result, or null when input 0 gave null.
C11_DefaultBridge ==
    \A e \in Chain :
        /\ (call.op = "push" /\ At(call.ret, "push", e) # {}) =>
              /\ Cardinality(At(call.ret, "simple_action", e)) = 1
              /\ call.ret[Where(call.ret, "simple_action", e)].p
                    = call.ret[Where(call.ret, "push", e)].p
              /\ call.ret[Where(call.ret, "simple_action returns", e)].p
                    = simple_action(cls[e],
                                    call.ret[Where(call.ret, "push", e)].p)
              /\ IF simple_action(cls[e],
                                  call.ret[Where(call.ret, "push", e)].p) = NULL
                 THEN At(call.ret, "push", e + 1) = {}
                 ELSE /\ Cardinality(At(call.ret, "push", e + 1)) = 1
                      /\ call.ret[Where(call.ret, "push", e + 1)].p
                            = simple_action(cls[e],
                                  call.ret[Where(call.ret, "push", e)].p)
        /\ (call.op = "pull" /\ At(call.ret, "pull", e) # {}) =>
              /\ Cardinality(At(call.ret, "pull", e - 1)) = 1
              /\ IF call.ret[Where(call.ret, "pull returns", e - 1)].p = NULL
                 THEN /\ At(call.ret, "simple_action", e) = {}
                      /\ call.ret[Where(call.ret, "pull returns", e)].p = NULL
                 ELSE /\ Cardinality(At(call.ret, "simple_action", e)) = 1
                      /\ call.ret[Where(call.ret, "simple_action", e)].p
                            = call.ret[Where(call.ret, "pull returns", e - 1)].p
                      /\ call.ret[Where(call.ret, "pull returns", e)].p
                            = simple_action(cls[e],
                                 call.ret[Where(call.ret, "pull returns",
                                                e - 1)].p)

\* a pull through the whole chain in which the first element got a packet
\* and dropped it, so that the second element's input gave null
C11_Witness ==
    /\ call.op = "pull"
    /\ call.args = <<ChainLen + 1, 1>>
    /\ cls[2] = "null"
    /\ At(call.ret, "simple_action", 2) # {}
    /\ At(call.ret, "simple_action", 3) = {}
    /\ Returned(call.ret) = NULL

\* C12: in a chain A -> B -> C of default hooks the calls are strictly
\* nested: B's push enters after A's and returns before A's, C's push enters
\* after B's and returns before B's, so A's push to B has returned only
\* after C's push has completed; for pull the same holds with C the caller.
C12_StrictlyNested ==
    \A e \in Chain : \A f \in Chain \cup {Source, Sink} :
        /\ (call.op = "push" /\ e < f /\ At(call.ret, "push", e) # {}
               /\ At(call.ret, "push", f) # {}) =>
              /\ Where(call.ret, "push", e) < Where(call.ret, "push", f)
              /\ Where(call.ret, "push", f)
                    < Where(call.ret, "push returns", f)
              /\ Where(call.ret, "push returns", f)
                    < Where(call.ret, "push returns", e)
        /\ (call.op = "pull" /\ f < e /\ At(call.ret, "pull", e) # {}) =>
              /\ Where(call.ret, "pull", e) < Where(call.ret, "pull", f)
              /\ Where(call.ret, "pull", f)
                    < Where(call.ret, "pull returns", f)
              /\ Where(call.ret, "pull returns", f)
                    < Where(call.ret, "pull returns", e)

\* a push into the first element that went through all three elements
C12_Witness ==
    /\ call.op = "push"
    /\ call.args[1] = 2
    /\ At(call.ret, "push", 2) # {}
    /\ At(call.ret, "push", 3) # {}
    /\ At(call.ret, "push", 4) # {}
    /\ Where(call.ret, "push returns", 4) < Where(call.ret, "push returns", 3)


(***************************************************************************)
(* Configuration: Element::configure, live_reconfigure, configuration, the *)
(* "config" handlers and the reconfigure handlers.  A String is the        *)
(* sequence of its characters.                                             *)
(***************************************************************************)
isspace(c) == c \in {" ", "\n"}

RECURSIVE SkipSpace(_)
\* s without its leading whitespace
SkipSpace(s) ==
    IF s # << >> /\ isspace(Head(s)) THEN SkipSpace(Tail(s)) ELSE s

RECURSIVE DropSpace(_)
\* s without its trailing whitespace
DropSpace(s) ==
    IF s # << >> /\ isspace(s[Len(s)])
    THEN DropSpace(SubSeq(s, 1, Len(s) - 1)) ELSE s

\* cp_uncomment(s): s without surrounding whitespace
cp_uncomment(s) == DropSpace(SkipSpace(s))

\* the place of the first ',' of s, Len(s) + 1 if it has none
CommaAt(s) ==
    IF \E k \in DOMAIN s : s[k] = ","
    THEN CHOOSE k \in DOMAIN s :
            s[k] = "," /\ \A j \in 1..(k - 1) : s[j] # ","
    ELSE Len(s) + 1

RECURSIVE cp_argvec(_)
\* cp_argvec(s, conf): the comma-separated arguments of s, each without
\* surrounding whitespace; an empty argument is kept unless it is the last
cp_argvec(s) ==
    IF s = << >> THEN << >>
    ELSE (IF cp_uncomment(SubSeq(s, 1, CommaAt(s) - 1)) # << >>
             \/ CommaAt(s) <= Len(s)
          THEN <<cp_uncomment(SubSeq(s, 1, CommaAt(s) - 1))>>
          ELSE << >>)
         \o cp_argvec(SubSeq(s, CommaAt(s) + 1, Len(s)))

RECURSIVE cp_unargvec(_)
\* cp_unargvec(conf): the arguments joined with ", "
cp_unargvec(conf) ==
    IF conf = << >> THEN << >>
    ELSE IF Len(conf) = 1 THEN conf[1]
    ELSE cp_unargvec(SubSeq(conf, 1, Len(conf) - 1))
         \o <<",", " ">> \o conf[Len(conf)]

\* String::stable_string("/* dynamically reconfigured */")
DynamicallyReconfigured == <<"/* dynamically reconfigured */">>

\* an element class as far as configuration goes: what can_live_reconfigure()
\* returns, whether configure() and configuration(Vector &) are the base
\* class's ("Element") or the class's own ("own"), and what the class's own
\* configure() returns for arguments it rejects
ConfClass(can, conf_fn, cfg_fn, fail) ==
    [can_live_reconfigure |-> can, configure |-> conf_fn,
     configuration |-> cfg_fn, fail |-> fail]

\* the result of a configuration method: the element, router and flags
\* after it, its return value, the calls of live_reconfigure and configure
\* it made, and the number of errors it reported
CR(e, r, st, ret, calls, errors) ==
    [el |-> e, rt |-> r, statics |-> st, ret |-> ret, calls |-> calls,
     errors |-> errors]

CallOf(fn, conf) == [fn |-> fn, conf |-> conf]

\* an argument that a class's own configure() rejects
BadArg == <<"x">>

\* c's configure(conf, errh).  The base class takes no arguments
\* (cp_va_parse(conf, this, errh, cpEnd)); a class's own configure() stores
\* the arguments in the element, or rejects them and changes nothing.
configure(c, e, r, st, conf) ==
    IF c.configure = "Element"
    THEN (IF conf = << >>
          THEN CR(e, r, st, 0, <<CallOf("configure", conf)>>, 0)
          ELSE CR(e, r, st, -EINVAL, <<CallOf("configure", conf)>>, 1))
    ELSE (IF \E k \in DOMAIN conf : conf[k] = BadArg
          THEN CR(e, r, st, c.fail, <<CallOf("configure", conf)>>, 1)
          ELSE CR([e EXCEPT !.args = conf], r, st, 0,
                  <<CallOf("configure", conf)>>, 0))

\* a live_reconfigure that does not ask can_live_reconfigure()
live_reconfigure_unasked(c, e, r, st, conf) ==
    [configure(c, e, r, st, conf) EXCEPT
        !.calls = <<CallOf("live_reconfigure", conf)>> \o @]

\* Element::live_reconfigure(conf, errh); errh->error() returns -EINVAL
live_reconfigure(c, e, r, st, conf) ==
    IF c.can_live_reconfigure
    THEN [configure(c, e, r, st, conf) EXCEPT
             !.calls = <<CallOf("live_reconfigure", conf)>> \o @]
    ELSE CR(e, r, st, -EINVAL, <<CallOf("live_reconfigure", conf)>>, 1)

\* a default configuration(Vector &) that leaves was_default_configuration
\* alone
configuration_vec_unflagged(c, e, r, st) ==
    IF c.configuration = "Element"
    THEN [conf |-> IF st.store_default_configuration # 0
                   THEN <<r.configuration>>
                   ELSE cp_argvec(r.configuration),
          statics |-> st]
    ELSE [conf |-> e.args, statics |-> st]

\* configuration(Vector<String> &conf): the base class's splits the router's
\* stored string, a class's own gives the element's current arguments
configuration_vec(c, e, r, st) ==
    IF c.configuration = "Element"
    THEN [conf |-> IF st.store_default_configuration # 0
                   THEN <<r.configuration>>
                   ELSE cp_argvec(r.configuration),
          statics |-> [st EXCEPT !.was_default_configuration = 1]]
    ELSE [conf |-> e.args, statics |-> st]

\* Element::configuration(): [str, statics]
configuration(c, e, r, st) ==
    [str |-> cp_unargvec(
                configuration_vec(c, e, r,
                    [st EXCEPT !.store_default_configuration = 1]).conf),
     statics |-> [configuration_vec(c, e, r,
                     [st EXCEPT !.store_default_configuration = 1]).statics
                  EXCEPT !.store_default_configuration = 0]]

\* s with a newline added unless it is empty or ends in one
WithNewline(s) ==
    IF s # << >> /\ s[Len(s)] # "\n" THEN s \o <<"\n">> ELSE s

\* read_config_handler(e, thunk)
read_config_handler(c, e, r, st) ==
    CR(e, r, configuration(c, e, r, st).statics,
       WithNewline(configuration(c, e, r, st).str), << >>, 0)

\* the end of write_config_handler, given live_reconfigure's result lr,
\* that stores the string whatever live_reconfigure returned
write_config_commit_always(lr, str) ==
    [lr EXCEPT !.rt.configuration = str]

\* the end of write_config_handler, given live_reconfigure's result lr
write_config_commit(lr, str) ==
    IF lr.ret >= 0 THEN [lr EXCEPT !.rt.configuration = str] ELSE lr

\* write_config_handler(str, e, thunk, errh)
write_config_handler(c, e, r, st, str) ==
    write_config_commit(live_reconfigure(c, e, r, st, cp_argvec(str)), str)


\* a null const char *
NullStr == StrConst("null", << >>)

\* the arguments reconfigure_handler passes on: the keyword argument added
\* at the end, or argument argno replaced, after padding with empty ones
reconfigure_conf(conf, arg, argno, keyword) ==
    IF keyword # NullStr
    THEN Append(conf, keyword.str \o <<" ">> \o arg)
    ELSE [k \in 1..(IF Len(conf) <= argno THEN argno + 1 ELSE Len(conf)) |->
             IF k = argno + 1 THEN cp_uncomment(arg)
             ELSE IF k <= Len(conf) THEN conf[k] ELSE << >>]

\* an end of reconfigure_handler that hands live_reconfigure's error on
reconfigure_commit_raw(lr, new_config) ==
    IF lr.ret < 0 THEN lr
    ELSE [lr EXCEPT !.rt.configuration = new_config, !.ret = 0]

\* the end of reconfigure_handler, given live_reconfigure's result lr
reconfigure_commit(lr, new_config) ==
    IF lr.ret < 0 THEN [lr EXCEPT !.ret = -EINVAL]
    ELSE [lr EXCEPT !.rt.configuration = new_config, !.ret = 0]

\* reconfigure_handler after e->configuration(conf) gave cv
reconfigure_with(c, e, r, cv, arg, argno, keyword) ==
    IF keyword # NullStr /\ cv.statics.was_default_configuration # 0
    THEN CR(e, r, cv.statics, -EINVAL, << >>, 1)
    ELSE reconfigure_commit(
             live_reconfigure(c, e, r, cv.statics,
                              reconfigure_conf(cv.conf, arg, argno, keyword)),
             IF keyword # NullStr THEN DynamicallyReconfigured
             ELSE cp_unargvec(reconfigure_conf(cv.conf, arg, argno, keyword)))

\* reconfigure_handler(arg, e, argno, keyword, errh)
reconfigure_handler(c, e, r, st, arg, argno, keyword) ==
    reconfigure_with(c, e, r,
        configuration_vec(c, e, r,
                          [st EXCEPT !.was_default_configuration = 0]),
        arg, argno, keyword)

\* Element::reconfigure_positional_handler(arg, e, thunk, errh)
reconfigure_positional_handler(c, e, r, st, arg, thunk) ==
    reconfigure_handler(c, e, r, st, arg, thunk, NullStr)

\* Element::reconfigure_keyword_handler(arg, e, thunk, errh)
reconfigure_keyword_handler(c, e, r, st, arg, thunk) ==
    reconfigure_handler(c, e, r, st, arg, -1, thunk)

MaxArgno == 1

\* configuration strings of the router's configuration and of writes to
\* "config"
ConfStrings ==
    { << >>, <<"a">>, <<"a", ",", "b">>, <<"a", ",", " ", "b">>,
      <<" ", "a", "\n">>, <<"x">>, <<"a", ",", "x">>, <<"b", ",">> }

\* strings written to a reconfigure handler
ConfArgs == { << >>, <<"a">>, <<" ", "b", "\n">>, <<"x">> }

Keywords == { StrConst("K", <<"K">>) }

ConfClasses ==
    { ConfClass(can, conf_fn, cfg_fn, fail) :
        can \in BOOLEAN, conf_fn \in {"Element", "own"},
        cfg_fn \in {"Element", "own"}, fail \in {-1, -EINVAL} }
    \ { ConfClass(can, "Element", cfg_fn, -1) :
        can \in BOOLEAN, cfg_fn \in {"Element", "own"} }

\* an element in a router whose stored configuration string for it is s
ConfElement == [router |-> 1, args |-> << >>]
ConfRouter(s) ==
    [state |-> ROUTER_LIVE, have_connections |-> TRUE, configuration |-> s]

\* a live router: the element's configure() accepted the stored string
InitConfig ==
    /\ cls \in ConfClasses
    /\ \E s \in ConfStrings :
          /\ configure(cls, ConfElement, ConfRouter(s), Statics(0, 0),
                       cp_argvec(s)).ret >= 0
          /\ el = configure(cls, ConfElement, ConfRouter(s), Statics(0, 0),
                            cp_argvec(s)).el
          /\ rt = ConfRouter(s)
    /\ call = Call("initialize", << >>, CR(0, 0, 0, 0, << >>, 0))
    /\ ports_initialized = TRUE
    /\ connected = {}
    /\ fault = FALSE
    /\ statics = Statics(0, 0)
    /\ nelements_allocated = 1
    /\ threads = NoThreads

\* a handler or method that gave the result res has been called
ConfStep(op, args, res) ==
    /\ el' = res.el
    /\ rt' = res.rt
    /\ statics' = res.statics
    /\ UNCHANGED <<nelements_allocated, threads>>
    /\ call' = Call(op, args, [res EXCEPT !.el = 0, !.rt = 0, !.statics = 0])
    /\ UNCHANGED <<cls, ports_initialized, connected, fault>>

\* a read of the "config" handler
ReadConfigCall ==
    ConfStep("read_config_handler", << >>,
             read_config_handler(cls, el, rt, statics))

\* a write of str to the "config" handler, which add_default_handlers
\* installs only when can_live_reconfigure()
WriteConfigCall(str) ==
    /\ cls.can_live_reconfigure
    /\ ConfStep("write_config_handler", <<str>>,
                write_config_handler(cls, el, rt, statics, str))

\* live_reconfigure(conf, errh) called directly
LiveReconfigureCall(conf) ==
    ConfStep("live_reconfigure", <<conf>>,
             live_reconfigure(cls, el, rt, statics, conf))

\* a write of arg to a handler made of reconfigure_positional_handler for
\* position thunk
ReconfigurePositionalCall(arg, thunk) ==
    ConfStep("reconfigure_positional_handler", <<arg, thunk>>,
             reconfigure_positional_handler(cls, el, rt, statics, arg, thunk))

\* a write of arg to a handler made of reconfigure_keyword_handler with the
\* keyword thunk; the number of arguments is kept within MaxArgno + 1
ReconfigureKeywordCall(arg, thunk) ==
    /\ Len(configuration_vec(cls, el, rt, statics).conf) <= MaxArgno
    /\ ConfStep("reconfigure_keyword_handler", <<arg, thunk>>,
             reconfigure_keyword_handler(cls, el, rt, statics, arg, thunk))

NextConfig ==
    \/ ReadConfigCall
    \/ \E str \in ConfStrings : WriteConfigCall(str)
    \/ \E str \in ConfStrings : LiveReconfigureCall(cp_argvec(str))
    \/ \E arg \in ConfArgs, n \in 0..MaxArgno :
          ReconfigurePositionalCall(arg, n)
    \/ \E arg \in ConfArgs, kw \in Keywords : ReconfigureKeywordCall(arg, kw)

SpecConfig == InitConfig /\ [][NextConfig]_vars


\* C13: a write of a string to the "config" handler returns what
\* live_reconfigure returns; if that is >= 0 the router's stored
\* configuration becomes the written string, and if it is < 0 the stored
\* configuration is unchanged and a read of "config" gives what it gave
\* before the write.
C13_WriteConfigCommits ==
    [][ call'.op = "write_config_handler" =>
           /\ call'.ret.ret
                 = live_reconfigure(cls, el, rt, statics,
                                    cp_argvec(call'.args[1])).ret
           /\ (call'.ret.ret >= 0) => rt'.configuration = call'.args[1]
           /\ (call'.ret.ret < 0) =>
                 /\ rt'.configuration = rt.configuration
                 /\ read_config_handler(cls, el', rt', statics').ret
                       = read_config_handler(cls, el, rt, statics).ret ]_vars

\* a write of a string other than the stored one that live_reconfigure
\* rejected
C13_Witness ==
    /\ call.op = "write_config_handler"
    /\ call.args = << <<"a", ",", "x">> >>
    /\ call.ret.ret < 0
    /\ rt.configuration = <<"a", ",", "b">>

\* C14: live_reconfigure on an element whose can_live_reconfigure() is false
\* reports an error, returns a negative value, does not call configure and
\* leaves the element unchanged; when can_live_reconfigure() is true it
\* calls configure(conf, errh) and returns what that returns.
C14_LiveReconfigure ==
    [][ call'.op = "live_reconfigure" =>
           IF cls.can_live_reconfigure
           THEN /\ call'.ret.ret
                      = configure(cls, el, rt, statics, call'.args[1]).ret
                /\ call'.ret.calls
                      = <<CallOf("live_reconfigure", call'.args[1]),
                          CallOf("configure", call'.args[1])>>
           ELSE /\ call'.ret.ret < 0
                /\ call'.ret.errors >= 1
                /\ \A k \in DOMAIN call'.ret.calls :
                      call'.ret.calls[k].fn # "configure"
                /\ el' = el ]_vars

\* live_reconfigure refused arguments that the class's configure() would
\* have accepted and stored
C14_Witness ==
    /\ call.op = "live_reconfigure"
    /\ ~cls.can_live_reconfigure
    /\ cls.configure = "own"
    /\ call.args = << <<(<<"a">>), (<<"b">>)>> >>
    /\ call.ret.ret < 0
    /\ el.args # call.args[1]

\* C19: a write through reconfigure_keyword_handler on an element that
\* relies on the default configuration() fails with an error, calls
\* neither live_reconfigure nor configure, and leaves the stored
\* configuration string unchanged.
C19_KeywordNeedsOwnConfiguration ==
    [][ (call'.op = "reconfigure_keyword_handler"
            /\ cls.configuration = "Element") =>
           /\ call'.ret.ret < 0
           /\ call'.ret.errors >= 1
           /\ call'.ret.calls = << >>
           /\ rt'.configuration = rt.configuration
           /\ el' = el ]_vars

\* a keyword write that failed on an element that may be reconfigured live
\* and whose configure() would have accepted the argument
C19_Witness ==
    /\ call.op = "reconfigure_keyword_handler"
    /\ cls.configuration = "Element"
    /\ cls.can_live_reconfigure
    /\ cls.configure = "own"
    /\ call.args[1] = <<"a">>
    /\ call.ret.ret < 0

\* the arguments conf with argument argno (counted from 0) replaced by
\* arg, after padding with empty arguments
RefReplaced(conf, argno, arg) ==
    [k \in 1..(IF Len(conf) < argno + 1 THEN argno + 1 ELSE Len(conf)) |->
        IF k = argno + 1 THEN arg
        ELSE IF k <= Len(conf) THEN conf[k] ELSE << >>]

\* what a reconfigure handler does with the arguments conf and the
\* replacement string new_config: it calls live_reconfigure(conf); on
\* success the router stores new_config and the handler returns 0, on
\* failure the stored string is unchanged and the handler returns -EINVAL
RefReconfigured(conf, new_config) ==
    /\ call'.ret.calls # << >>
    /\ call'.ret.calls[1] = CallOf("live_reconfigure", conf)
    /\ IF live_reconfigure(cls, el, rt, statics, conf).ret >= 0
       THEN call'.ret.ret = 0 /\ rt'.configuration = new_config
       ELSE call'.ret.ret = -EINVAL /\ rt'.configuration = rt.configuration

\* C20 as claimed: argument n is replaced by the written string itself.
C20_PositionalReplacesByArg ==
    [][ call'.op = "reconfigure_positional_handler" =>
           RefReconfigured(
               RefReplaced(configuration_vec(cls, el, rt, statics).conf,
                           call'.args[2], call'.args[1]),
               cp_unargvec(
                   RefReplaced(configuration_vec(cls, el, rt, statics).conf,
                               call'.args[2], call'.args[1]))) ]_vars

\* C20: a write of arg through reconfigure_positional_handler for position
\* n calls live_reconfigure with the current configuration arguments,
\* padded with empty arguments to n+1, in which argument n is replaced by
\* arg without its surrounding whitespace (cp_uncomment(arg)); on success
\* the stored configuration string becomes the join of those arguments
\* (for a keyword write on an element with its own configuration(): the
\* current arguments plus "KEYWORD arg", and the 'dynamically reconfigured'
\* marker is stored); on failure the handler returns -EINVAL and the stored
\* string is unchanged.
C20_PositionalReplacesByUncommentedArg ==
    [][ /\ call'.op = "reconfigure_positional_handler" =>
           RefReconfigured(
               RefReplaced(configuration_vec(cls, el, rt, statics).conf,
                           call'.args[2], cp_uncomment(call'.args[1])),
               cp_unargvec(
                   RefReplaced(configuration_vec(cls, el, rt, statics).conf,
                               call'.args[2], cp_uncomment(call'.args[1]))))
        /\ (call'.op = "reconfigure_keyword_handler"
               /\ cls.configuration = "own") =>
           RefReconfigured(
               Append(el.args, call'.args[2].str \o <<" ">> \o call'.args[1]),
               DynamicallyReconfigured) ]_vars

\* a positional write of " b\n" to position 1 of the one-argument
\* configuration "a" succeeded and "a, b" was stored
C20_Witness ==
    /\ call.op = "reconfigure_positional_handler"
    /\ call.args = << <<" ", "b", "\n">>, 1 >>
    /\ call.ret.ret = 0
    /\ call.ret.calls[1].conf = << <<"a">>, <<"b">> >>
    /\ rt.configuration = <<"a", ",", " ", "b">>


(***************************************************************************)
(* connect_port and set_nports on an element whose ports the router has    *)
(* initialized, before and after the router reaches ROUTER_PREINITIALIZE.  *)
(***************************************************************************)
MaxConnPorts == 1

\* the peer element and the peer port indexes given to connect_port
ConnPeers == {2}
ConnPeerPorts == {-1, 0}

InitConnect ==
    /\ cls = BaseClass
    /\ \E i, o \in 0..MaxConnPorts :
          \E in_v \in [1..i -> Disciplines], out_v \in [1..o -> Disciplines] :
             el = initialize_ports(ElementWithPorts(cls, i, o), in_v, out_v)
    /\ rt = [NewRouter EXCEPT !.state = ROUTER_PRECONFIGURE]
    /\ call = Call("initialize_ports", << >>, 0)
    /\ ports_initialized = TRUE
    /\ connected = {}
    /\ fault = FALSE
    /\ statics = Statics(0, 0)
    /\ nelements_allocated = 1
    /\ threads = NoThreads

\* connect_port(isoutput, port, e, e_port), whatever the router's state
ConnectPortCall(isoutput, port, pe, e_port) ==
    /\ el' = connect_port(el, isoutput, port, pe, e_port).el
    /\ call' = Call("connect_port", <<isoutput, port, pe, e_port>>,
                    connect_port(el, isoutput, port, pe, e_port).ret)
    /\ UNCHANGED <<rt, cls, ports_initialized, connected, fault, statics,
                   nelements_allocated, threads>>

NextConnect ==
    \/ \E isoutput \in BOOLEAN, port \in -1..MaxConnPorts,
          pe \in ConnPeers, e_port \in ConnPeerPorts :
          ConnectPortCall(isoutput, port, pe, e_port)
    \/ \E i, o \in -1..MaxConnPorts : SetNportsCall(i, o, MemOk)
    \/ RouterSetConnections
    \/ RouterAdvance

SpecConnect == InitConnect /\ [][NextConnect]_vars

\* C15: connect_port(isoutput, port, e, e_port) on a port that is not
\* active returns -1 and leaves every port record unchanged; on an active
\* port it returns 0 and that port's record becomes exactly (e, e_port),
\* every other record staying as it was.
C15_ConnectPort ==
    [][ call'.op = "connect_port" =>
           IF port_active(el, call'.args[1], call'.args[2])
           THEN /\ call'.ret = 0
                /\ PortArray(el', IF call'.args[1] THEN 1 ELSE 0)
                       [call'.args[2] + 1]
                      = Port(call'.args[3], call'.args[4])
                /\ \A side \in 0..1 : \A k \in 1..el.nports[side] :
                      (side # (IF call'.args[1] THEN 1 ELSE 0)
                          \/ k # call'.args[2] + 1)
                         => PortArray(el', side)[k] = PortArray(el, side)[k]
                /\ el'.nports = el.nports
           ELSE /\ call'.ret = -1
                /\ el' = el ]_vars

\* connect_port refused an inactive input that is in range, and the input's
\* record is the one initialize_ports wrote
C15_Witness ==
    /\ call.op = "connect_port"
    /\ call.ret = -1
    /\ call.args = <<FALSE, 0, 2, 0>>
    /\ ninputs(el) = 1
    /\ ~port_active(el, FALSE, 0)
    /\ InputPorts[1] = Port(NULL, -1)

\* the ports of e that are active
ActivePorts(e) ==
    { <<isoutput, port>> \in BOOLEAN \X (0..MaxPorts) :
         port_active(e, isoutput, port) }

\* C16 as claimed: once the router is in ROUTER_PREINITIALIZE or later and
\* initialize_ports has run, no call of connect_port or set_nports changes
\* which ports are active, whatever its arguments.
C16_ActivityFrozen ==
    [][ (/\ rt.state >= ROUTER_PREINITIALIZE
         /\ ports_initialized
         /\ call'.op \in {"connect_port", "set_nports"})
        => ActivePorts(el') = ActivePorts(el) ]_vars

\* C16: once the router is in ROUTER_PREINITIALIZE or later and
\* initialize_ports has run, no call of set_nports, whatever its arguments,
\* and no call of connect_port with a peer port index e_port >= 0 changes
\* which ports are active.
C16_ActivityFrozenForPeerPorts ==
    [][ (/\ rt.state >= ROUTER_PREINITIALIZE
         /\ ports_initialized
         /\ call'.op \in {"connect_port", "set_nports"}
         /\ call'.op = "connect_port" => call'.args[4] >= 0)
        => ActivePorts(el') = ActivePorts(el) ]_vars

\* in a live router connect_port has given an active output a peer, and the
\* output is still active
C16_Witness ==
    /\ rt.state = ROUTER_LIVE
    /\ call.op = "connect_port"
    /\ call.args = <<TRUE, 0, 2, 0>>
    /\ call.ret = 0
    /\ OutputPorts[1] = Port(2, 0)
    /\ ActivePorts(el) = {<<TRUE, 0>>, <<FALSE, 0>>}


(***************************************************************************)
(* Port-count specifiers outside the grammar (specification SpecNotify).   *)
(***************************************************************************)
\* a legal instance of the grammar: one range, or an input range, '/', and
\* an output range or '='
RefLegalPortCount(pc) ==
    /\ RefIsRange(RefInRange(pc))
    /\ \/ RefIsRange(RefOutRange(pc))
       \/ RefFind(pc, "/") # 0 /\ RefOutRange(pc) = <<"=">>

\* a legal input range followed by '/' and nothing
RefEmptyOutRange(pc) ==
    /\ RefFind(pc, "/") # 0
    /\ RefIsRange(RefInRange(pc))
    /\ RefOutRange(pc) = << >>

\* notify_nports, given an error handler, has reported a parse error,
\* returned a negative value and left the element as it was
RefParseError ==
    /\ call'.ret < 0
    /\ notify_nports(el, rt, cls, call'.args[1], call'.args[2], MemOk).errors
          >= 1
    /\ el' = el

\* C17 as claimed: for every non-empty port-count specifier that is not a
\* legal instance of the grammar, notify_nports reports a parse error,
\* returns a negative value and leaves the port counts unchanged.
C17_IllegalPortCountRejected ==
    [][ (/\ call'.op = "notify_nports"
         /\ cls.port_count # << >>
         /\ ~RefLegalPortCount(cls.port_count))
        => RefParseError ]_vars

\* C17: for every non-empty port-count specifier that is not a legal
\* instance of the grammar, other than a legal input range followed by '/'
\* and an empty output range, notify_nports reports a parse error, returns
\* a negative value and leaves the port counts unchanged; a specifier with
\* an empty output range is accepted, the empty range read as exactly 0.
C17_IllegalPortCountRejectedButEmptyOut ==
    [][ /\ (/\ call'.op = "notify_nports"
            /\ cls.port_count # << >>
            /\ ~RefLegalPortCount(cls.port_count)
            /\ ~RefEmptyOutRange(cls.port_count))
           => RefParseError
        /\ (/\ call'.op = "notify_nports"
            /\ RefEmptyOutRange(cls.port_count))
           => /\ call'.ret = 0
              /\ ninputs(el') = RefInputs(cls.port_count, call'.args[1])
              /\ noutputs(el') = 0 ]_vars

\* notify_nports has refused "1/1/1", which has text after a complete
\* range, when 2 inputs and 3 outputs were wanted
C17_Witness ==
    /\ call.op = "notify_nports"
    /\ cls.port_count = <<"1","/","1","/","1">>
    /\ call.args = <<2, 3>>
    /\ call.ret = -1
    /\ ninputs(el) = 0
    /\ noutputs(el) = 0


(***************************************************************************)
(* Flow codes with more codes than ports (specification SpecFlow).         *)
(***************************************************************************)
\* the text of the last port code of the section t
RefLastCode(t) ==
    IF t[Len(t)] = "]"
    THEN SubSeq(t, CHOOSE k \in 1..Len(t) :
                      t[k] = "[" /\ \A m \in (k + 1)..Len(t) : t[m] # "[",
                Len(t))
    ELSE <<t[Len(t)]>>

\* the section t followed by copies of its last code until it has at least
\* n codes
RECURSIVE RefPadded(_, _)
RefPadded(t, n) ==
    IF Len(RefCodes(t)) >= n THEN t ELSE RefPadded(t \o RefLastCode(t), n)

\* codes to put where a section has no port left
ExtraCodes == { <<"x">>, <<"#">>, <<"[", "^", "x", "]">> }

\* the section t of a side with n ports, and t with one or two more copies
\* of its last code, or with a code at a position >= n
RefLongerSections(t, n) ==
    {t, t \o RefLastCode(t), t \o RefLastCode(t) \o RefLastCode(t)}
    \cup { RefPadded(t, n) \o c : c \in ExtraCodes }

\* the flow codes that differ from s as C18 allows, for nin inputs and nout
\* outputs
RefLongerFlows(s, nin, nout) ==
    { a \o <<"/">> \o b :
        a \in RefLongerSections(RefFlowSection(s, FALSE), nin),
        b \in RefLongerSections(RefFlowSection(s, TRUE), nout) }

\* C18: for a well-formed flow code and any port counts, port_flow gives
\* the same answer for every port when a section gets further copies of
\* its last code, or any codes at positions at or beyond that side's port
\* count; "[x#][x#][x#]/x######" answers as "[x#]/x#" does.
C18_LastCodeRepeats ==
    (/\ call.op = "port_flow"
     /\ cls.flow_code.ptr # "COMPLETE_FLOW"
     /\ WellFormedFlow(cls.flow_code.str)) =>
        /\ \A f \in RefLongerFlows(cls.flow_code.str, ninputs(el),
                                   noutputs(el)) :
              port_flow(el, StrAt("f", f, cls.flow_code.before), call.args[1],
                        call.args[2]).travels = call.ret
        /\ cls.flow_code.str = <<"[","x","#","]","/","x","#">> =>
              port_flow(el,
                        StrAt("f", <<"[","x","#","]","[","x","#","]",
                                     "[","x","#","]","/","x","#","#",
                                     "#","#","#","#">>,
                              cls.flow_code.before),
                        call.args[1], call.args[2]).travels = call.ret

\* port_flow has answered for input 2 of an element with flow code
\* "[x#]/x#", 3 inputs and 4 outputs: the input's code is the repeated
\* "[x#]", which reaches output 0 by 'x' and output 2 by '#'
C18_Witness ==
    /\ FlowCase(<<"[","x","#","]","/","x","#">>, 3, 4)
    /\ call.op = "port_flow"
    /\ call.args = <<FALSE, 2>>
    /\ call.ret = <<TRUE, FALSE, TRUE, FALSE>>

\* C26: port_flow reports an error for every flow code that contains no
\* '/' (here: whenever it is called for a port in range of an element with
\* such a flow code).
C26_MissingSlashReported ==
    (/\ call.op = "port_flow"
     /\ FlowPortInRange
     /\ cls.flow_code.ptr # "null"
     /\ strchr_slash(cls.flow_code, 1) = 0)
       => port_flow(el, cls.flow_code, call.args[1], call.args[2]).errors > 0

\* C29: for a flow code that begins with '/', port_flow for a port in range
\* never reads a character before the start of the string: it reports an
\* error and gives an all-false vector.
C29_EmptyInputSection ==
    (/\ call.op = "port_flow"
     /\ FlowPortInRange
     /\ CharAt(cls.flow_code.str, 1) = "/")
       => /\ ~port_flow(el, cls.flow_code, call.args[1], call.args[2]).ub
          /\ port_flow(el, cls.flow_code, call.args[1], call.args[2]).errors > 0
          /\ \A k \in DOMAIN call.ret : ~call.ret[k]

(***************************************************************************)
(* Construction and destruction (specification SpecAlloc).                 *)
(* el maps the elements that are alive to their records;                   *)
(* nelements_allocated is the static counter.                              *)
(***************************************************************************)
\* the most elements alive at a time
MaxElements == 3

ElementIds == 1..MaxElements

\* the port counts the elements of SpecAlloc ask for
AllocCounts == -1..1

\* what a constructor leaves: the element, the counter, and whether it
\* dereferenced a null router
Constructed(e, n, f) == [el |-> e, nelements_allocated |-> n, fault |-> f]

\* Element::Element(); n is nelements_allocated
ElementCtor(n) == Constructed(NewElement, n + 1, FALSE)

\* Element::Element(int ninputs, int noutputs).  The element has no router
\* yet; the processing() a constructor calls is Element::processing(),
\* which is AGNOSTIC.
ElementCtorPorts(n, r, new_ninputs, new_noutputs, mem) ==
    Constructed(
        set_nports(NewElement, r, FALSE, new_ninputs, new_noutputs, mem).el,
        n + 1,
        set_nports(NewElement, r, FALSE, new_ninputs, new_noutputs, mem).fault)

\* a destructor that leaves the counter alone
ElementDtor_uncounted(e, n) ==
    Constructed(release(release(e, 1, old_out_inline(e)),
                        0, old_in_inline(e)),
                n, FALSE)

\* Element::~Element(): the counter is decremented and the port arrays not
\* taken for inline are deleted.  el is the element's record as it ends.
ElementDtor(e, n) ==
    Constructed(release(release(e, 1, old_out_inline(e)),
                        0, old_in_inline(e)),
                n - 1, FALSE)

\* el with element id bound to record e
WithElement(els, id, e) ==
    [i \in DOMAIN els \cup {id} |-> IF i = id THEN e ELSE els[i]]

\* el without element id
WithoutElement(els, id) == [i \in DOMAIN els \ {id} |-> els[i]]

InitAlloc ==
    /\ el = [i \in {} |-> NewElement]
    /\ rt = NewRouter
    /\ cls = BaseClass
    /\ call = Call("main", << >>, 0)
    /\ ports_initialized = FALSE
    /\ connected = {}
    /\ fault = FALSE
    /\ statics = Statics(0, 0)
    /\ nelements_allocated = 0
    /\ threads = NoThreads

\* new Element
ConstructCall(id) ==
    /\ ~fault
    /\ id \notin DOMAIN el
    /\ el' = WithElement(el, id, ElementCtor(nelements_allocated).el)
    /\ nelements_allocated' = ElementCtor(nelements_allocated).nelements_allocated
    /\ call' = Call("Element", <<id>>, 0)
    /\ UNCHANGED <<rt, cls, ports_initialized, connected, fault, statics,
                   threads>>

\* new Element(new_ninputs, new_noutputs); an element whose constructor
\* faulted is not alive
ConstructPortsCall(id, new_ninputs, new_noutputs) ==
    LET c == ElementCtorPorts(nelements_allocated, rt,
                              new_ninputs, new_noutputs, MemOk) IN
    /\ ~fault
    /\ id \notin DOMAIN el
    /\ el' = IF c.fault THEN el ELSE WithElement(el, id, c.el)
    /\ nelements_allocated' = c.nelements_allocated
    /\ fault' = c.fault
    /\ call' = Call("Element(int, int)", <<id, new_ninputs, new_noutputs>>, 0)
    /\ UNCHANGED <<rt, cls, ports_initialized, connected, statics, threads>>

\* the router adopts element id (Router::add_element)
AddElementCall(id) ==
    /\ ~fault
    /\ id \in DOMAIN el
    /\ el[id].router = NULL
    /\ el' = [el EXCEPT ![id].router = 1]
    /\ call' = Call("add_element", <<id>>, 0)
    /\ UNCHANGED <<rt, cls, ports_initialized, connected, fault, statics,
                   nelements_allocated, threads>>

\* element id calls set_nports(new_ninputs, new_noutputs)
ElementSetNportsCall(id, new_ninputs, new_noutputs) ==
    LET r == set_nports(el[id], rt, ProcIsPULL(cls),
                        new_ninputs, new_noutputs, MemOk) IN
    /\ ~fault
    /\ id \in DOMAIN el
    /\ el' = [el EXCEPT ![id] = r.el]
    /\ rt' = r.rt
    /\ fault' = r.fault
    /\ call' = Call("set_nports", <<id>>, r.ret)
    /\ UNCHANGED <<cls, ports_initialized, connected, statics,
                   nelements_allocated, threads>>

\* delete element id
DestroyCall(id) ==
    /\ ~fault
    /\ id \in DOMAIN el
    /\ el' = WithoutElement(el, id)
    /\ nelements_allocated' =
          ElementDtor(el[id], nelements_allocated).nelements_allocated
    /\ call' = Call("~Element", <<id>>,
                    ElementDtor(el[id], nelements_allocated).el)
    /\ UNCHANGED <<rt, cls, ports_initialized, connected, fault, statics,
                   threads>>

NextAlloc ==
    \/ \E id \in ElementIds : ConstructCall(id)
    \/ \E id \in ElementIds, i, o \in AllocCounts :
          ConstructPortsCall(id, i, o)
    \/ \E id \in ElementIds : AddElementCall(id)
    \/ \E id \in ElementIds, i, o \in AllocCounts :
          ElementSetNportsCall(id, i, o)
    \/ \E id \in ElementIds : DestroyCall(id)

SpecAlloc == InitAlloc /\ [][NextAlloc]_vars

\* C21: in every state reached by constructions and destructions that
\* completed, nelements_allocated is its initial value (0) plus the number
\* of elements alive; so it is never negative, and a balanced sequence of
\* constructions and destructions brings it back to what it was.
C21_CounterIsLiveElements ==
    ~fault => /\ nelements_allocated = 0 + Cardinality(DOMAIN el)
              /\ nelements_allocated >= 0

\* an element was destroyed while others stay alive
C21_Witness ==
    /\ call.op = "~Element"
    /\ Cardinality(DOMAIN el) = 2
    /\ nelements_allocated = 2

\* C24: the deprecated constructor Element(ninputs, noutputs), which runs
\* before the element has a router, completes without touching the absent
\* router and leaves an element with ninputs inputs and noutputs outputs.
C24_DeprecatedConstructor ==
    (call.op = "Element(int, int)" /\ call.args[2] >= 0 /\ call.args[3] >= 0)
       => /\ ~fault
          /\ call.args[1] \in DOMAIN el
          /\ ninputs(el[call.args[1]]) = call.args[2]
          /\ noutputs(el[call.args[1]]) = call.args[3]

(***************************************************************************)
(* Construction and destruction by several threads (specification          *)
(* SpecCounter).  nelements_allocated is a plain int: nelements_allocated++*)
(* and nelements_allocated-- are a read of the counter followed by a write *)
(* of the value read plus or minus one, and steps of other threads may     *)
(* come between the two.  threads[t] is the position of thread t: idle, or *)
(* inside a constructor or the destructor with the counter's value in reg. *)
(***************************************************************************)
\* the constructions and destructions one thread makes
MaxThreadOps == 2

ThreadIds == 1..2

Thread(pc, id, reg, done) == [pc |-> pc, id |-> id, reg |-> reg, done |-> done]

\* the elements some thread is constructing or destroying
Busy == { threads[t].id : t \in { u \in ThreadIds : threads[u].pc # "idle" } }

InitCounter ==
    /\ el = [i \in {} |-> NewElement]
    /\ rt = NewRouter
    /\ cls = BaseClass
    /\ call = Call("main", << >>, 0)
    /\ ports_initialized = FALSE
    /\ connected = {}
    /\ fault = FALSE
    /\ statics = Statics(0, 0)
    /\ nelements_allocated = 0
    /\ threads = [t \in ThreadIds |-> Thread("idle", 0, 0, 0)]

\* thread t enters Element::Element() for a new element id and reads the
\* counter
CtorRead(t, id) ==
    /\ threads[t].pc = "idle"
    /\ threads[t].done < MaxThreadOps
    /\ id \notin DOMAIN el \cup Busy
    /\ threads' = [threads EXCEPT ![t] = Thread("Element", id,
                                               nelements_allocated, @.done)]
    /\ call' = Call("Element: read", <<t, id>>, nelements_allocated)
    /\ UNCHANGED <<el, rt, cls, ports_initialized, connected, fault, statics,
                   nelements_allocated>>

\* thread t writes the counter and completes the constructor
CtorWrite(t) ==
    /\ threads[t].pc = "Element"
    /\ nelements_allocated' = ElementCtor(threads[t].reg).nelements_allocated
    /\ el' = WithElement(el, threads[t].id, ElementCtor(threads[t].reg).el)
    /\ threads' = [threads EXCEPT ![t] = Thread("idle", 0, 0, @.done + 1)]
    /\ call' = Call("Element: write", <<t>>, nelements_allocated')
    /\ UNCHANGED <<rt, cls, ports_initialized, connected, fault, statics>>

\* thread t enters Element::~Element() for element id and reads the counter
DtorRead(t, id) ==
    /\ threads[t].pc = "idle"
    /\ threads[t].done < MaxThreadOps
    /\ id \in DOMAIN el \ Busy
    /\ threads' = [threads EXCEPT ![t] = Thread("~Element", id,
                                               nelements_allocated, @.done)]
    /\ call' = Call("~Element: read", <<t, id>>, nelements_allocated)
    /\ UNCHANGED <<el, rt, cls, ports_initialized, connected, fault, statics,
                   nelements_allocated>>

\* thread t writes the counter and completes the destructor
DtorWrite(t) ==
    /\ threads[t].pc = "~Element"
    /\ nelements_allocated' =
          ElementDtor(el[threads[t].id], threads[t].reg).nelements_allocated
    /\ el' = WithoutElement(el, threads[t].id)
    /\ threads' = [threads EXCEPT ![t] = Thread("idle", 0, 0, @.done + 1)]
    /\ call' = Call("~Element: write", <<t>>, nelements_allocated')
    /\ UNCHANGED <<rt, cls, ports_initialized, connected, fault, statics>>

NextCounter ==
    \/ \E t \in ThreadIds, id \in ElementIds : CtorRead(t, id)
    \/ \E t \in ThreadIds : CtorWrite(t)
    \/ \E t \in ThreadIds, id \in ElementIds : DtorRead(t, id)
    \/ \E t \in ThreadIds : DtorWrite(t)

SpecCounter == InitCounter /\ [][NextCounter]_vars

\* C22: when the threads have finished their constructions and
\* destructions, nelements_allocated is its initial value (0) plus the
\* number of elements alive, under every interleaving of their steps.
C22_CounterAtomic ==
    (\A t \in ThreadIds : threads[t].pc = "idle")
        => nelements_allocated = 0 + Cardinality(DOMAIN el)

(***************************************************************************)
(* The router's run of an element's lifecycle hooks (specification         *)
(* SpecLife): configure() on every element in configure order, the check   *)
(* of the connections, initialize() in the same order up to the first      *)
(* failure, installation, and cleanup() in the reverse order.  The router  *)
(* is written from the description of the lifecycle and of cleanup();      *)
(* el[e] keeps what element e's hooks returned and the stages its          *)
(* cleanup() was called with.                                              *)
(***************************************************************************)
\* the elements of the router, in configure order
MaxLifeElements == 4

LifeElements == 1..MaxLifeElements

\* enum CleanupStage, in increasing order
CLEANUP_NO_ROUTER == 0
CLEANUP_CONFIGURE_FAILED == 1
CLEANUP_CONFIGURED == 2
CLEANUP_INITIALIZE_FAILED == 3
CLEANUP_INITIALIZED == 4
CLEANUP_ROUTER_INITIALIZED == 5
CLEANUP_MANUAL == 6

\* what an element's configure() or initialize() returned, if it was called
HookResults == {"ok", "failed"}

LifeElement(c, i, cleanups) ==
    [configure |-> c, initialize |-> i, cleanups |-> cleanups]

\* Element::cleanup(stage): the default does nothing
cleanup(e, stage) == e

\* the router's record: the phase of its run, the next element in that
\* phase, whether every hook has succeeded so far, whether the router was
\* installed, and how far each element got
LifeRouter(phase, next, all_ok, installed, element_stage) ==
    [phase |-> phase, next |-> next, all_ok |-> all_ok,
     installed |-> installed, element_stage |-> element_stage]

\* the stage the router's records give for element e, the router's
\* installation left out
cleanup_stage_recorded(r, e) == r.element_stage[e]

\* the stage the router passes to cleanup() of element e
cleanup_stage(r, e) ==
    IF r.installed THEN CLEANUP_ROUTER_INITIALIZED ELSE r.element_stage[e]

InitLife ==
    /\ el = [e \in LifeElements |-> LifeElement("none", "none", << >>)]
    /\ rt = LifeRouter("configure", 1, TRUE, FALSE,
                       [e \in LifeElements |-> CLEANUP_NO_ROUTER])
    /\ cls = BaseClass
    /\ call = Call("add_element", << >>, 0)
    /\ ports_initialized = FALSE
    /\ connected = {}
    /\ fault = FALSE
    /\ statics = Statics(0, 0)
    /\ nelements_allocated = MaxLifeElements
    /\ threads = NoThreads

\* the router calls configure() of the next element, which returns res;
\* after the last element the run goes on only if every configure()
\* succeeded
LifeConfigureCall(res) ==
    LET e == rt.next
        ok == rt.all_ok /\ res = "ok"
        stage == IF res = "ok" THEN CLEANUP_CONFIGURED
                 ELSE CLEANUP_CONFIGURE_FAILED IN
    /\ rt.phase = "configure"
    /\ el' = [el EXCEPT ![e].configure = res]
    /\ rt' = LifeRouter(IF e < MaxLifeElements THEN "configure"
                        ELSE IF ok THEN "connections" ELSE "cleanup",
                        IF e < MaxLifeElements THEN e + 1
                        ELSE IF ok THEN 1 ELSE MaxLifeElements,
                        ok, FALSE,
                        [rt.element_stage EXCEPT ![e] = stage])
    /\ call' = Call("configure", <<e>>, res)
    /\ UNCHANGED <<cls, ports_initialized, connected, fault, statics,
                   nelements_allocated, threads>>

\* the router validates the connections and resolves the disciplines
LifeCheckConnections(res) ==
    /\ rt.phase = "connections"
    /\ rt' = [rt EXCEPT !.phase = IF res = "ok" THEN "initialize"
                                  ELSE "cleanup",
                        !.next = IF res = "ok" THEN 1 ELSE MaxLifeElements,
                        !.all_ok = (res = "ok")]
    /\ call' = Call("check connections", << >>, res)
    /\ UNCHANGED <<el, cls, ports_initialized, connected, fault, statics,
                   nelements_allocated, threads>>

\* the router calls initialize() of the next element, which returns res;
\* the first failure ends the phase, and after the last success the router
\* is installed
LifeInitializeCall(res) ==
    LET e == rt.next
        stage == IF res = "ok" THEN CLEANUP_INITIALIZED
                 ELSE CLEANUP_INITIALIZE_FAILED IN
    /\ rt.phase = "initialize"
    /\ el' = [el EXCEPT ![e].initialize = res]
    /\ rt' = LifeRouter(IF res # "ok" THEN "cleanup"
                        ELSE IF e < MaxLifeElements THEN "initialize"
                        ELSE "live",
                        IF res = "ok" /\ e < MaxLifeElements THEN e + 1
                        ELSE MaxLifeElements,
                        res = "ok",
                        res = "ok" /\ e = MaxLifeElements,
                        [rt.element_stage EXCEPT ![e] = stage])
    /\ call' = Call("initialize", <<e>>, res)
    /\ UNCHANGED <<cls, ports_initialized, connected, fault, statics,
                   nelements_allocated, threads>>

\* the installed router is taken down
LifeTeardown ==
    /\ rt.phase = "live"
    /\ rt' = [rt EXCEPT !.phase = "cleanup", !.next = MaxLifeElements]
    /\ call' = Call("teardown", << >>, 0)
    /\ UNCHANGED <<el, cls, ports_initialized, connected, fault, statics,
                   nelements_allocated, threads>>

\* the router calls cleanup() of the next element, in reverse order
LifeCleanupCall ==
    LET e == rt.next IN
    /\ rt.phase = "cleanup"
    /\ el' = [el EXCEPT ![e] =
                 [cleanup(el[e], cleanup_stage(rt, e)) EXCEPT
                     !.cleanups = Append(@, cleanup_stage(rt, e))]]
    /\ rt' = [rt EXCEPT !.phase = IF e = 1 THEN "done" ELSE "cleanup",
                        !.next = IF e = 1 THEN 1 ELSE e - 1]
    /\ call' = Call("cleanup", <<e>>, cleanup_stage(rt, e))
    /\ UNCHANGED <<cls, ports_initialized, connected, fault, statics,
                   nelements_allocated, threads>>

NextLife ==
    \/ \E res \in HookResults : LifeConfigureCall(res)
    \/ \E res \in HookResults : LifeCheckConnections(res)
    \/ \E res \in HookResults : LifeInitializeCall(res)
    \/ LifeTeardown
    \/ LifeCleanupCall

SpecLife == InitLife /\ [][NextLife]_vars

\* the furthest step an element reached, from what its hooks returned and
\* whether its router was installed
RefFurthestStage(e, installed) ==
    IF e.configure = "failed" THEN CLEANUP_CONFIGURE_FAILED
    ELSE IF e.initialize = "none" THEN CLEANUP_CONFIGURED
    ELSE IF e.initialize = "failed" THEN CLEANUP_INITIALIZE_FAILED
    ELSE IF installed THEN CLEANUP_ROUTER_INITIALIZED
    ELSE CLEANUP_INITIALIZED

\* C23: over a lifecycle run, also one in which a configure() or an
\* initialize() fails, cleanup() is never called twice on an element, it
\* has been called once on every element when the run is over, and the
\* stage it is called with is the furthest step the element reached.
C23_CleanupOnceWithFurthestStage ==
    /\ \A e \in LifeElements : Len(el[e].cleanups) <= 1
    /\ rt.phase = "done" => \A e \in LifeElements : Len(el[e].cleanups) = 1
    /\ \A e \in LifeElements :
          Len(el[e].cleanups) = 1
             => el[e].cleanups[1] = RefFurthestStage(el[e], rt.installed)

\* a run that is over in which the second initialize() failed: the elements
\* were cleaned up as initialized, as failed and as configured only
C23_Witness ==
    /\ rt.phase = "done"
    /\ el[1].cleanups = <<CLEANUP_INITIALIZED>>
    /\ el[2].cleanups = <<CLEANUP_INITIALIZE_FAILED>>
    /\ el[3].cleanups = <<CLEANUP_CONFIGURED>>

(***************************************************************************)
(* Port arrays and memory (specification SpecMem): one adopted element     *)
(* whose port counts are set, by set_nports and by notify_nports, while    *)
(* operator new[] may give a null pointer or an array at any address       *)
(* outside the element, until the element is destroyed.                    *)
(* nelements_allocated is 1 while the element is alive.                    *)
(***************************************************************************)
\* the most ports of a side of the element of SpecMem
MaxMemPorts == 5

\* the port counts asked for: none, one, and more than the inline buffer
\* holds
MemCounts == {0, 1} \cup (INLINE_PORTS + 1)..MaxMemPorts

\* the pairs of counts asked for: each count on each side, and INT_MAX on
\* one side with ports on the other, a pair whose sum does not fit an int
MemPairs ==
    (MemCounts \X MemCounts)
    \cup { <<i, INT_MAX>> : i \in MemCounts \ {0} }
    \cup { <<INT_MAX, o>> : o \in MemCounts \ {0} }

\* The addresses new[] may give for the output array: far from the element,
\* or _inline_ports + k for a k beyond the inline buffer
MemAddrs == {Far} \cup (INLINE_PORTS + 1)..MaxMemPorts

\* what new[] may give
MemChoices == { MemAt(i, o, a) : i, o \in BOOLEAN, a \in MemAddrs }

MemClasses == { Class(<<"-">>, p, COMPLETE_FLOW) : p \in {AGNOSTIC, PULL} }

InitMem ==
    /\ el = AttachedElement
    /\ rt = [NewRouter EXCEPT !.state = ROUTER_PRECONFIGURE]
    /\ cls \in MemClasses
    /\ call = Call("add_element", << >>, 0)
    /\ ports_initialized = FALSE
    /\ connected = {}
    /\ fault = FALSE
    /\ statics = Statics(0, 0)
    /\ nelements_allocated = 1
    /\ threads = NoThreads

\* the call asks new[] for an array: mem is drawn only then
MemAllocates(new_ninputs, new_noutputs) ==
    /\ ~(rt.have_connections /\ rt.state >= ROUTER_PREINITIALIZE)
    /\ \/ ~new_in_inline(ProcIsPULL(cls), new_ninputs, new_noutputs)
       \/ ~new_out_inline(ProcIsPULL(cls), new_ninputs, new_noutputs)

\* set_nports(new_ninputs, new_noutputs), whatever the router's state:
\* set_nports provides for a call made while the connections are installed
\* and the router has not reached ROUTER_PREINITIALIZE
MemSetNportsCall(new_ninputs, new_noutputs, mem) ==
    LET r == set_nports(el, rt, ProcIsPULL(cls), new_ninputs, new_noutputs,
                        mem) IN
    /\ nelements_allocated > 0
    /\ el' = r.el
    /\ rt' = r.rt
    /\ fault' = r.fault
    /\ call' = Call("set_nports", <<new_ninputs, new_noutputs>>, r.ret)
    /\ UNCHANGED <<cls, ports_initialized, connected, statics,
                   nelements_allocated, threads>>

\* notify_nports(want_in, want_out, errh), whatever the router's state
MemNotifyNportsCall(want_in, want_out, mem) ==
    LET r == notify_nports(el, rt, cls, want_in, want_out, mem) IN
    /\ nelements_allocated > 0
    /\ el' = r.el
    /\ rt' = r.rt
    /\ fault' = r.fault
    /\ call' = Call("notify_nports", <<want_in, want_out>>, r.ret)
    /\ UNCHANGED <<cls, ports_initialized, connected, statics,
                   nelements_allocated, threads>>

\* the router has installed every connection
MemSetConnections ==
    /\ nelements_allocated > 0
    /\ rt.state < ROUTER_PREINITIALIZE
    /\ ~rt.have_connections
    /\ rt' = [rt EXCEPT !.have_connections = TRUE]
    /\ call' = Call("set_connections", << >>, 0)
    /\ UNCHANGED <<el, cls, ports_initialized, connected, fault, statics,
                   nelements_allocated, threads>>

\* the element is deleted; el keeps its record as it ended
MemDestroyCall ==
    /\ nelements_allocated > 0
    /\ el' = ElementDtor(el, nelements_allocated).el
    /\ nelements_allocated' =
          ElementDtor(el, nelements_allocated).nelements_allocated
    /\ call' = Call("~Element", << >>, 0)
    /\ UNCHANGED <<rt, cls, ports_initialized, connected, fault, statics,
                   threads>>

NextMem ==
    \/ \E io \in MemPairs, mem \in MemChoices :
          /\ mem = MemOk \/ MemAllocates(io[1], io[2])
          /\ MemSetNportsCall(io[1], io[2], mem)
    \/ \E io \in MemPairs, mem \in MemChoices :
          /\ mem = MemOk \/ MemAllocates(io[1], io[2])
          /\ MemNotifyNportsCall(io[1], io[2], mem)
    \/ MemSetConnections
    \/ nelements_allocated > 0 /\ RouterAdvance
    \/ MemDestroyCall

SpecMem == InitMem /\ [][NextMem]_vars

\* C25: a set_nports call in which an allocation fails returns -ENOMEM and
\* leaves no partial state: the element's port arrays and counts and the
\* router's have-connections flag are as before the call.
C25_NoPartialState ==
    [][ (call'.op = "set_nports" /\ call'.ret = -ENOMEM)
           => (el' = el /\ rt' = rt) ]_vars

\* C27: when notify_nports returns 0 for a non-empty port-count specifier,
\* ninputs() and noutputs() are the counts it resolved: a failure of
\* set_nports is not reported as success.
C27_NotifyReportsFailure ==
    (call.op = "notify_nports" /\ call.ret = 0 /\ cls.port_count # << >>)
       => /\ ninputs(el) = RefInputs(cls.port_count, call.args[1])
          /\ noutputs(el) = RefOutputs(cls.port_count, call.args[1],
                                       call.args[2])

\* C28: across set_nports calls and the destruction of the element, every
\* heap port array is freed exactly once and the inline buffer is never
\* freed: the output array is taken for inline exactly when it lies in the
\* inline buffer, whatever the address of a heap array.
C28_HeapArraysFreedOnce ==
    /\ old_out_inline(el) <=> ~el.ports[1].heap
    /\ old_in_inline(el) <=> ~el.ports[0].heap
    /\ ~el.leaked
    /\ ~el.misfreed

(***************************************************************************)
(* configuration() and configuration(Vector) run by two threads            *)
(* (specification SpecRace).  The two flags are file-scope statics shared  *)
(* by every thread and every element, and nothing serialises the calls.    *)
(* threads[t] is the position of thread t: idle, or inside configuration() *)
(* after it set store_default_configuration ("flagged") or after its call  *)
(* of configuration(conf) returned ("fetched", with conf).                 *)
(***************************************************************************)
RaceThread(pc, conf) == [pc |-> pc, conf |-> conf]

\* read_positional_handler(element, thunk): [conf, ret, statics], where
\* conf is what configuration(conf) gave
read_positional_handler(c, e, r, st, thunk) ==
    [conf |-> configuration_vec(c, e, r, st).conf,
     ret |-> IF thunk >= Len(configuration_vec(c, e, r, st).conf)
             THEN << >>
             ELSE WithNewline(configuration_vec(c, e, r, st).conf[thunk + 1]),
     statics |-> configuration_vec(c, e, r, st).statics]

\* cp_va_parse_keyword(arg, element, errh, kw, cpArgument, &s, cpEnd): the
\* number of keywords assigned and the value stored; arg binds kw when it
\* is kw alone, or kw, whitespace, and the value
cp_va_parse_keyword(arg, kw) ==
    IF arg = kw THEN [ret |-> 1, s |-> << >>]
    ELSE IF Len(arg) > Len(kw) /\ SubSeq(arg, 1, Len(kw)) = kw
            /\ isspace(arg[Len(kw) + 1])
    THEN [ret |-> 1, s |-> SkipSpace(SubSeq(arg, Len(kw) + 1, Len(arg)))]
    ELSE [ret |-> 0, s |-> << >>]

\* the loop of read_keyword_handler, for i from Len(conf) down: the value
\* of the last argument of conf that binds kw, empty if there is none
RECURSIVE keyword_value(_, _, _)
keyword_value(conf, i, kw) ==
    IF i < 1 THEN << >>
    ELSE IF cp_va_parse_keyword(conf[i], kw).ret > 0
    THEN cp_va_parse_keyword(conf[i], kw).s
    ELSE keyword_value(conf, i - 1, kw)

\* read_keyword_handler(element, thunk): [conf, ret, statics], where conf
\* is what configuration(conf) gave and thunk is the keyword
read_keyword_handler(c, e, r, st, thunk) ==
    [conf |-> configuration_vec(c, e, r, st).conf,
     ret |-> WithNewline(keyword_value(configuration_vec(c, e, r, st).conf,
                             Len(configuration_vec(c, e, r, st).conf),
                             thunk.str)),
     statics |-> configuration_vec(c, e, r, st).statics]

\* the stored configuration strings tried: those of the configuration
\* handlers, and two that bind the keyword
RaceStrings ==
    ConfStrings \cup { <<"K", " ", "a">>, <<"a", ",", "K", " ", "b">> }

\* a live router with an element whose configuration(Vector) is the
\* default one
InitRace ==
    /\ cls \in { c \in ConfClasses : c.configuration = "Element" }
    /\ \E s \in RaceStrings :
          /\ configure(cls, ConfElement, ConfRouter(s), Statics(0, 0),
                       cp_argvec(s)).ret >= 0
          /\ el = configure(cls, ConfElement, ConfRouter(s), Statics(0, 0),
                            cp_argvec(s)).el
          /\ rt = ConfRouter(s)
    /\ call = Call("initialize", << >>, 0)
    /\ ports_initialized = TRUE
    /\ connected = {}
    /\ fault = FALSE
    /\ statics = Statics(0, 0)
    /\ nelements_allocated = 1
    /\ threads = [t \in ThreadIds |-> RaceThread("idle", << >>)]

\* thread t enters configuration(): store_default_configuration = 1
ConfigurationEnter(t) ==
    /\ threads[t].pc = "idle"
    /\ statics' = [statics EXCEPT !.store_default_configuration = 1]
    /\ threads' = [threads EXCEPT ![t] = RaceThread("flagged", << >>)]
    /\ call' = Call("configuration: enter", <<t>>, 0)
    /\ UNCHANGED <<el, rt, cls, ports_initialized, connected, fault,
                   nelements_allocated>>

\* thread t, inside configuration(), calls configuration(conf)
ConfigurationFetch(t) ==
    /\ threads[t].pc = "flagged"
    /\ statics' = configuration_vec(cls, el, rt, statics).statics
    /\ threads' = [threads EXCEPT ![t] =
                      RaceThread("fetched",
                                 configuration_vec(cls, el, rt, statics).conf)]
    /\ call' = Call("configuration: configuration(conf)", <<t>>,
                    [conf |-> configuration_vec(cls, el, rt, statics).conf])
    /\ UNCHANGED <<el, rt, cls, ports_initialized, connected, fault,
                   nelements_allocated>>

\* thread t leaves configuration(): store_default_configuration = 0 and
\* cp_unargvec(conf) is returned
ConfigurationReturn(t) ==
    /\ threads[t].pc = "fetched"
    /\ statics' = [statics EXCEPT !.store_default_configuration = 0]
    /\ threads' = [threads EXCEPT ![t] = RaceThread("idle", << >>)]
    /\ call' = Call("configuration", <<t>>,
                    [conf |-> threads[t].conf,
                     ret |-> cp_unargvec(threads[t].conf)])
    /\ UNCHANGED <<el, rt, cls, ports_initialized, connected, fault,
                   nelements_allocated>>

\* thread t reads a handler made of read_positional_handler for position
\* thunk, which calls configuration(conf)
ReadPositionalCall(t, thunk) ==
    /\ threads[t].pc = "idle"
    /\ statics' = read_positional_handler(cls, el, rt, statics, thunk).statics
    /\ call' = Call("read_positional_handler", <<t, thunk>>,
                    [conf |-> read_positional_handler(cls, el, rt, statics,
                                                      thunk).conf,
                     ret |-> read_positional_handler(cls, el, rt, statics,
                                                     thunk).ret])
    /\ UNCHANGED <<el, rt, cls, ports_initialized, connected, fault,
                   nelements_allocated, threads>>

\* thread t reads a handler made of read_keyword_handler for the keyword
\* thunk, which calls configuration(conf)
ReadKeywordCall(t, thunk) ==
    /\ threads[t].pc = "idle"
    /\ statics' = read_keyword_handler(cls, el, rt, statics, thunk).statics
    /\ call' = Call("read_keyword_handler", <<t, thunk>>,
                    [conf |-> read_keyword_handler(cls, el, rt, statics,
                                                   thunk).conf,
                     ret |-> read_keyword_handler(cls, el, rt, statics,
                                                  thunk).ret])
    /\ UNCHANGED <<el, rt, cls, ports_initialized, connected, fault,
                   nelements_allocated, threads>>

NextRace ==
    \/ \E t \in ThreadIds : ConfigurationEnter(t)
    \/ \E t \in ThreadIds : ConfigurationFetch(t)
    \/ \E t \in ThreadIds : ConfigurationReturn(t)
    \/ \E t \in ThreadIds, thunk \in 0..MaxArgno : ReadPositionalCall(t, thunk)
    \/ \E t \in ThreadIds, kw \in Keywords : ReadKeywordCall(t, kw)

SpecRace == InitRace /\ [][NextRace]_vars

\* C30: while another thread runs configuration(), a caller of the default
\* configuration(Vector), here read_positional_handler, always receives the
\* comma-split arguments of the stored configuration string, under every
\* interleaving.
C30_VectorCallerGetsArguments ==
    call.op = "read_positional_handler"
       => call.ret.conf = cp_argvec(rt.configuration)

====
